---- MODULE Spec2Model ----
(***************************************************************************)
(* A model of the chess rules engine (Chess/ChessEngine.py: GameState,     *)
(* Move, Castling) and of the event loop that drives it                    *)
(* (Chess/ChessMain.py: main).                                             *)
(*                                                                         *)
(* A piece is the pair of the two characters of the source's string:       *)
(* "wK" is <<"w", "K">> and the empty square "--" is <<"-", "-">>.  A       *)
(* square is <<row, col>>, the empty tuple () is <<>>.  A GameState, a     *)
(* Move and a Castling object are records with the source's field names.   *)
(* A method of GameState is an operator from the object (and arguments)    *)
(* to the object after the call; a method that also returns a value        *)
(* yields a record of both.                                                *)
(***************************************************************************)
EXTENDS Integers, Sequences, FiniteSets, TLC

EMPTY == <<"-", "-">>
\* Python's None; the string "None" is str(None).
None == "<None>"

\* GameState.__init__: the board.
InitialBoard ==
  LET List(x) == 0 :> x[1] @@ 1 :> x[2] @@ 2 :> x[3] @@ 3 :> x[4]
                 @@ 4 :> x[5] @@ 5 :> x[6] @@ 6 :> x[7] @@ 7 :> x[8]
      back(color) == List(<< <<color, "R">>, <<color, "N">>, <<color, "B">>, <<color, "Q">>,
                             <<color, "K">>, <<color, "B">>, <<color, "N">>, <<color, "R">> >>)
      same(piece) == List(<<piece, piece, piece, piece, piece, piece, piece, piece>>)
  IN List(<<back("b"), same(<<"b", "p">>), same(EMPTY), same(EMPTY),
            same(EMPTY), same(EMPTY), same(<<"w", "p">>), back("w")>>)

\* Castling.__init__
Castling(white_king_side, black_king_side, white_queen_side, black_queen_side) ==
  [white_king_side |-> white_king_side, black_king_side |-> black_king_side,
   white_queen_side |-> white_queen_side, black_queen_side |-> black_queen_side]

\* GameState.__init__.  raised is not a field of the source: it records that
\* an exception (IndexError) escaped from a method called on the object.
NewGameState ==
  [board |-> InitialBoard,
   white_to_move |-> TRUE,
   move_log |-> <<>>,
   redo_log |-> <<>>,
   white_king_location |-> <<7, 4>>,
   black_king_location |-> <<0, 4>>,
   checkmate |-> FALSE,
   stalemate |-> FALSE,
   draw |-> FALSE,
   en_passant_possible |-> <<>>,
   castling_rights |-> Castling(TRUE, TRUE, TRUE, TRUE),
   castling_log |-> <<Castling(TRUE, TRUE, TRUE, TRUE)>>,
   pawn_promotion |-> FALSE,
   promotion_square |-> <<>>,
   promotion_piece_color |-> None,
   raised |-> FALSE]

\* Move.__init__.  piece_promoted, is_capture and move_ID are left out of the
\* record: the first is only written, the other two are functions of the
\* fields kept (see move_ID below).  in_valid_moves is not a field of the
\* source: it records that this Move object is an element of the list the
\* event loop holds in valid_moves (object identity: the click handler
\* assigns promotion_piece on the object, which every holder of it sees).
Move(start_square, end_square, board, is_en_passant_move, is_castling_move) ==
  LET piece_moved == board[start_square[1]][start_square[2]]
      end_row == end_square[1]
  IN [start_row |-> start_square[1],
      start_col |-> start_square[2],
      end_row |-> end_row,
      end_col |-> end_square[2],
      piece_moved |-> piece_moved,
      piece_captured |->
        IF is_en_passant_move
          THEN (IF piece_moved = <<"b", "p">> THEN <<"w", "p">> ELSE <<"b", "p">>)
          ELSE board[end_square[1]][end_square[2]],
      is_pawn_promotion |-> (piece_moved = <<"w", "p">> /\ end_row = 0)
                            \/ (piece_moved = <<"b", "p">> /\ end_row = 7),
      promotion_piece |-> None,
      is_en_passant_move |-> is_en_passant_move,
      is_castling_move |-> is_castling_move,
      in_valid_moves |-> FALSE]

\* Move.__init__: move_ID, the key of Move.__eq__.
move_ID(start_row, start_col, end_row, end_col) ==
  start_row * 1000 + start_col * 100 + end_row * 10 + end_col

\* Move.__eq__
MoveEq(a, b) ==
  move_ID(a.start_row, a.start_col, a.end_row, a.end_col)
    = move_ID(b.start_row, b.start_col, b.end_row, b.end_col)

-----------------------------------------------------------------------------
(* Pseudo-legal move generation.                                           *)

\* GameState.get_pawn_moves
get_pawn_moves(gs, r, c) ==
  LET board == gs.board
      ep == gs.en_passant_possible
      mv(er, ec) == Move(<<r, c>>, <<er, ec>>, board, FALSE, FALSE)
      epmv(er, ec) == Move(<<r, c>>, <<er, ec>>, board, TRUE, FALSE)
      capture(er, ec, enemy) ==
        IF board[er][ec][1] = enemy THEN <<mv(er, ec)>>
        ELSE IF <<er, ec>> = ep THEN <<epmv(er, ec)>>
        ELSE <<>>
  IN IF gs.white_to_move
       THEN IF r - 1 >= 0
              THEN (IF board[r - 1][c] = EMPTY
                      THEN <<mv(r - 1, c)>>
                           \o (IF r = 6 /\ board[r - 2][c] = EMPTY
                                 THEN <<mv(r - 2, c)>> ELSE <<>>)
                      ELSE <<>>)
                   \o (IF c - 1 >= 0 THEN capture(r - 1, c - 1, "b") ELSE <<>>)
                   \o (IF c + 1 <= 7 THEN capture(r - 1, c + 1, "b") ELSE <<>>)
              ELSE <<>>
       ELSE IF r + 1 <= 7
              THEN (IF board[r + 1][c] = EMPTY
                      THEN <<mv(r + 1, c)>>
                           \o (IF r = 1 /\ board[r + 2][c] = EMPTY
                                 THEN <<mv(r + 2, c)>> ELSE <<>>)
                      ELSE <<>>)
                   \o (IF c - 1 >= 0 THEN capture(r + 1, c - 1, "w") ELSE <<>>)
                   \o (IF c + 1 <= 7 THEN capture(r + 1, c + 1, "w") ELSE <<>>)
              ELSE <<>>

\* Slide as it would be if the first occupied square were never included.
RECURSIVE SlideNoCapture(_, _, _, _, _, _)
SlideNoCapture(gs, r, c, direction, i, enemy_color) ==
  IF i >= 8 THEN <<>>
  ELSE LET end_row == r + direction[1] * i
           end_col == c + direction[2] * i
       IN IF 0 <= end_row /\ end_row < 8 /\ 0 <= end_col /\ end_col < 8
            THEN LET end_piece == gs.board[end_row][end_col]
                     m == Move(<<r, c>>, <<end_row, end_col>>, gs.board, FALSE, FALSE)
                 IN IF end_piece = EMPTY
                      THEN <<m>> \o SlideNoCapture(gs, r, c, direction, i + 1, enemy_color)
                    ELSE <<>>
            ELSE <<>>

\* The inner loop "for i in range(1, 8)" of get_rook_moves / get_bishop_moves
\* along one direction, from step i on.
RECURSIVE Slide(_, _, _, _, _, _)
Slide(gs, r, c, direction, i, enemy_color) ==
  IF i >= 8 THEN <<>>
  ELSE LET end_row == r + direction[1] * i
           end_col == c + direction[2] * i
       IN IF 0 <= end_row /\ end_row < 8 /\ 0 <= end_col /\ end_col < 8
            THEN LET end_piece == gs.board[end_row][end_col]
                     m == Move(<<r, c>>, <<end_row, end_col>>, gs.board, FALSE, FALSE)
                 IN IF end_piece = EMPTY
                      THEN <<m>> \o Slide(gs, r, c, direction, i + 1, enemy_color)
                    ELSE IF end_piece[1] = enemy_color THEN <<m>>
                    ELSE <<>>
            ELSE <<>>

\* The outer loop over the directions of a sliding piece.
RECURSIVE SlideAll(_, _, _, _, _)
SlideAll(gs, r, c, directions, k) ==
  IF k > Len(directions) THEN <<>>
  ELSE Slide(gs, r, c, directions[k], 1, IF gs.white_to_move THEN "b" ELSE "w")
       \o SlideAll(gs, r, c, directions, k + 1)

\* GameState.get_rook_moves
get_rook_moves(gs, r, c) ==
  SlideAll(gs, r, c, << <<-1, 0>>, <<0, -1>>, <<1, 0>>, <<0, 1>> >>, 1)

\* GameState.get_bishop_moves
get_bishop_moves(gs, r, c) ==
  SlideAll(gs, r, c, << <<-1, -1>>, <<-1, 1>>, <<1, -1>>, <<1, 1>> >>, 1)

\* GameState.get_queen_moves
get_queen_moves(gs, r, c) == get_rook_moves(gs, r, c) \o get_bishop_moves(gs, r, c)

\* The loop of get_knight_moves / get_king_moves over fixed offsets.
RECURSIVE Step(_, _, _, _, _)
Step(gs, r, c, directions, k) ==
  IF k > Len(directions) THEN <<>>
  ELSE LET end_row == r + directions[k][1]
           end_col == c + directions[k][2]
           ally_color == IF gs.white_to_move THEN "w" ELSE "b"
       IN (IF 0 <= end_row /\ end_row < 8 /\ 0 <= end_col /\ end_col < 8
              /\ gs.board[end_row][end_col][1] # ally_color
             THEN <<Move(<<r, c>>, <<end_row, end_col>>, gs.board, FALSE, FALSE)>>
             ELSE <<>>)
          \o Step(gs, r, c, directions, k + 1)

\* get_knight_moves as it would be without the direction (-2, 1).
get_knight_moves_seven(gs, r, c) ==
  Step(gs, r, c, << <<-2, -1>>, <<-1, -2>>, <<-1, 2>>,
                    <<1, -2>>, <<1, 2>>, <<2, -1>>, <<2, 1>> >>, 1)

\* GameState.get_knight_moves
get_knight_moves(gs, r, c) ==
  Step(gs, r, c, << <<-2, -1>>, <<-2, 1>>, <<-1, -2>>, <<-1, 2>>,
                    <<1, -2>>, <<1, 2>>, <<2, -1>>, <<2, 1>> >>, 1)

\* GameState.get_king_moves
get_king_moves(gs, r, c) ==
  Step(gs, r, c, << <<-1, -1>>, <<-1, 0>>, <<-1, 1>>, <<0, -1>>,
                    <<0, 1>>, <<1, -1>>, <<1, 0>>, <<1, 1>> >>, 1)

\* piece[1] of a piece string whose letters after the colour are kind: the
\* first of them ("wNone"[1] is "N").
SecondChar(kind) == IF kind = "None" THEN "N" ELSE kind

\* GameState.move_functions: the dispatch on the piece kind.
move_functions(gs, piece, r, c) ==
  CASE piece = "p" -> get_pawn_moves(gs, r, c)
    [] piece = "R" -> get_rook_moves(gs, r, c)
    [] piece = "N" -> get_knight_moves(gs, r, c)
    [] piece = "B" -> get_bishop_moves(gs, r, c)
    [] piece = "Q" -> get_queen_moves(gs, r, c)
    [] piece = "K" -> get_king_moves(gs, r, c)

\* The inner loop of get_all_possible_moves: row r from column c on.
RECURSIVE MovesInRow(_, _, _)
MovesInRow(gs, r, c) ==
  IF c >= 8 THEN <<>>
  ELSE (IF (gs.board[r][c][1] = "w" /\ gs.white_to_move)
           \/ (gs.board[r][c][1] = "b" /\ ~gs.white_to_move)
          THEN move_functions(gs, SecondChar(gs.board[r][c][2]), r, c)
          ELSE <<>>)
       \o MovesInRow(gs, r, c + 1)

\* The outer loop of get_all_possible_moves: from row r on.
RECURSIVE MovesFromRow(_, _)
MovesFromRow(gs, r) ==
  IF r >= 8 THEN <<>> ELSE MovesInRow(gs, r, 0) \o MovesFromRow(gs, r + 1)

\* GameState.get_all_possible_moves
get_all_possible_moves(gs) == MovesFromRow(gs, 0)

\* GameState.square_under_attack
square_under_attack(gs, r, c) ==
  LET opponent_moves ==
        get_all_possible_moves([gs EXCEPT !.white_to_move = ~gs.white_to_move])
  IN \E k \in 1..Len(opponent_moves) :
       opponent_moves[k].end_row = r /\ opponent_moves[k].end_col = c

\* GameState.in_check
in_check(gs) ==
  IF gs.white_to_move
    THEN square_under_attack(gs, gs.white_king_location[1], gs.white_king_location[2])
    ELSE square_under_attack(gs, gs.black_king_location[1], gs.black_king_location[2])

-----------------------------------------------------------------------------
(* Applying and reverting moves.                                           *)

\* Python list indexing board[r][i] with a computed column i: a negative
\* index counts from the end of the row, an index past the end raises
\* IndexError.
PyIndexOk(i) == -8 <= i /\ i <= 7
PyIndex(i) == IF i < 0 THEN i + 8 ELSE i

\* The truth value of move.promotion_piece ("if move.promotion_piece").
Truthy(promotion_piece) == promotion_piece # None /\ promotion_piece # ""

\* GameState.update_castling: the rights after the call.
update_castling(castling_rights, move) ==
  IF move.piece_moved = <<"w", "K">>
    THEN [castling_rights EXCEPT !.white_king_side = FALSE, !.white_queen_side = FALSE]
  ELSE IF move.piece_moved = <<"b", "K">>
    THEN [castling_rights EXCEPT !.black_king_side = FALSE, !.black_queen_side = FALSE]
  ELSE IF move.piece_moved = <<"w", "R">>
    THEN IF move.start_row = 7
           THEN IF move.start_col = 0
                  THEN [castling_rights EXCEPT !.white_queen_side = FALSE]
                ELSE IF move.start_col = 7
                  THEN [castling_rights EXCEPT !.white_king_side = FALSE]
                ELSE castling_rights
           ELSE castling_rights
  ELSE IF move.piece_moved = <<"b", "R">>
    THEN IF move.start_row = 0
           THEN IF move.start_col = 0
                  THEN [castling_rights EXCEPT !.black_queen_side = FALSE]
                ELSE IF move.start_col = 7
                  THEN [castling_rights EXCEPT !.black_king_side = FALSE]
                ELSE castling_rights
           ELSE castling_rights
  ELSE castling_rights

\* GameState.make_move, lines 56-65: the piece is moved, the move logged, the
\* turn swapped and the king's location followed.  (end_col is negative only
\* for a queen-side castling move of a king on the a or b file; Python then
\* indexes the row from its end.)
MakeMoveHead(gs, move) ==
  [gs EXCEPT
     !.board = [[gs.board EXCEPT ![move.start_row][move.start_col] = EMPTY]
                   EXCEPT ![move.end_row][PyIndex(move.end_col)] = move.piece_moved],
     !.move_log = Append(gs.move_log, move),
     !.white_to_move = ~gs.white_to_move,
     !.white_king_location =
        IF move.piece_moved = <<"w", "K">> THEN <<move.end_row, move.end_col>> ELSE @,
     !.black_king_location =
        IF move.piece_moved = <<"w", "K">> THEN @
        ELSE IF move.piece_moved = <<"b", "K">> THEN <<move.end_row, move.end_col>> ELSE @]

\* The pawn promotion branch as it would be if the turn were swapped only on
\* the way past it: a promotion leaves the turn with the side that moved.
MakeMovePromotionSameTurn(g, move) ==
  IF Truthy(move.promotion_piece)
    THEN [g EXCEPT !.board[move.end_row][move.end_col] =
                      <<move.piece_moved[1], move.promotion_piece>>,
                   !.white_to_move = ~g.white_to_move]
    ELSE [g EXCEPT !.pawn_promotion = TRUE,
                   !.promotion_square = <<move.end_row, move.end_col>>,
                   !.promotion_piece_color = move.piece_moved[1],
                   !.white_to_move = ~g.white_to_move]

\* The pawn promotion branch as it would be if a promotion without a chosen
\* piece made a queen at once instead of suspending.
MakeMovePromotionAutoQueen(g, move) ==
  [g EXCEPT !.board[move.end_row][move.end_col] =
              <<move.piece_moved[1],
                IF Truthy(move.promotion_piece) THEN move.promotion_piece ELSE "Q">>]

\* GameState.make_move, lines 67-77: the pawn promotion branch, which returns.
MakeMovePromotion(g, move) ==
  IF Truthy(move.promotion_piece)
    THEN [g EXCEPT !.board[move.end_row][move.end_col] =
                      <<move.piece_moved[1], move.promotion_piece>>]
    ELSE [g EXCEPT !.pawn_promotion = TRUE,
                   !.promotion_square = <<move.end_row, move.end_col>>,
                   !.promotion_piece_color = move.piece_moved[1]]

\* GameState.make_move, lines 79-87: en passant capture and the update of
\* en_passant_possible.
MakeMoveEnPassant(g, move) ==
  [g EXCEPT
     !.board = IF move.is_en_passant_move
                 THEN [g.board EXCEPT ![move.start_row][move.end_col] = EMPTY]
                 ELSE @,
     !.en_passant_possible =
        IF move.piece_moved[2] = "p"
           /\ (move.start_row - move.end_row = 2 \/ move.end_row - move.start_row = 2)
          THEN <<(move.start_row + move.end_row) \div 2, move.start_col>>
          ELSE <<>>]

\* Lines 89-96 as they would be if the rook were put on the king's new
\* square.
MakeMoveCastlingOntoKing(g, move) ==
  IF ~move.is_castling_move THEN g
  ELSE IF move.end_col - move.start_col = 2
    THEN IF ~PyIndexOk(move.end_col + 1) THEN [g EXCEPT !.raised = TRUE]
         ELSE [g EXCEPT !.board =
                 [[g.board EXCEPT ![move.end_row][PyIndex(move.end_col)] =
                                     g.board[move.end_row][PyIndex(move.end_col + 1)]]
                     EXCEPT ![move.end_row][PyIndex(move.end_col + 1)] = EMPTY]]
    ELSE IF ~PyIndexOk(move.end_col + 1) \/ ~PyIndexOk(move.end_col - 2)
           THEN [g EXCEPT !.raised = TRUE]
         ELSE [g EXCEPT !.board =
                 [[g.board EXCEPT ![move.end_row][PyIndex(move.end_col)] =
                                     g.board[move.end_row][PyIndex(move.end_col - 2)]]
                     EXCEPT ![move.end_row][PyIndex(move.end_col - 2)] = EMPTY]]

\* GameState.make_move, lines 89-96: the rook's relocation of a castling move.
\* The first index read or written past the row raises IndexError.
MakeMoveCastling(g, move) ==
  IF ~move.is_castling_move THEN g
  ELSE IF move.end_col - move.start_col = 2
    THEN IF ~PyIndexOk(move.end_col + 1) THEN [g EXCEPT !.raised = TRUE]
         ELSE [g EXCEPT !.board =
                 [[g.board EXCEPT ![move.end_row][PyIndex(move.end_col - 1)] =
                                     g.board[move.end_row][PyIndex(move.end_col + 1)]]
                     EXCEPT ![move.end_row][PyIndex(move.end_col + 1)] = EMPTY]]
    ELSE IF ~PyIndexOk(move.end_col + 1) \/ ~PyIndexOk(move.end_col - 2)
           THEN [g EXCEPT !.raised = TRUE]
         ELSE [g EXCEPT !.board =
                 [[g.board EXCEPT ![move.end_row][PyIndex(move.end_col + 1)] =
                                     g.board[move.end_row][PyIndex(move.end_col - 2)]]
                     EXCEPT ![move.end_row][PyIndex(move.end_col - 2)] = EMPTY]]

\* Lines 98-107 as they would be if the rights were read off the board: a
\* right holds while the king and the rook stand on their home squares.
MakeMoveRightsByBoard(g, move) ==
  LET rights ==
        Castling(g.board[7][4] = <<"w", "K">> /\ g.board[7][7] = <<"w", "R">>,
                 g.board[0][4] = <<"b", "K">> /\ g.board[0][7] = <<"b", "R">>,
                 g.board[7][4] = <<"w", "K">> /\ g.board[7][0] = <<"w", "R">>,
                 g.board[0][4] = <<"b", "K">> /\ g.board[0][0] = <<"b", "R">>)
  IN [g EXCEPT !.castling_rights = rights,
               !.castling_log = Append(g.castling_log, rights)]

\* GameState.make_move, lines 98-107: the rights are updated and a copy of
\* them is pushed on castling_log.
MakeMoveRights(g, move) ==
  LET rights == update_castling(g.castling_rights, move)
  IN [g EXCEPT !.castling_rights = rights,
               !.castling_log = Append(g.castling_log, rights)]

\* GameState.make_move
make_move(gs, move) ==
  LET g1 == MakeMoveHead(gs, move)
  IN IF move.is_pawn_promotion THEN MakeMovePromotion(g1, move)
     ELSE LET g2 == MakeMoveCastling(MakeMoveEnPassant(g1, move), move)
          IN IF g2.raised THEN g2 ELSE MakeMoveRights(g2, move)

\* Lines 114-123 as they would be without lines 119-123: the king locations
\* are not put back.
UndoMoveHeadKeepKing(gs, move) ==
  [gs EXCEPT
     !.move_log = SubSeq(gs.move_log, 1, Len(gs.move_log) - 1),
     !.board = [[gs.board EXCEPT ![move.start_row][move.start_col] = move.piece_moved]
                   EXCEPT ![move.end_row][PyIndex(move.end_col)] = move.piece_captured],
     !.white_to_move = ~gs.white_to_move]

\* GameState.undo_move, lines 114-123.
UndoMoveHead(gs, move) ==
  [gs EXCEPT
     !.move_log = SubSeq(gs.move_log, 1, Len(gs.move_log) - 1),
     !.board = [[gs.board EXCEPT ![move.start_row][move.start_col] = move.piece_moved]
                   EXCEPT ![move.end_row][PyIndex(move.end_col)] = move.piece_captured],
     !.white_to_move = ~gs.white_to_move,
     !.white_king_location =
        IF move.piece_moved = <<"w", "K">> THEN <<move.start_row, move.start_col>> ELSE @,
     !.black_king_location =
        IF move.piece_moved = <<"w", "K">> THEN @
        ELSE IF move.piece_moved = <<"b", "K">> THEN <<move.start_row, move.start_col>> ELSE @]

\* GameState.undo_move, lines 125-133: en passant and the two-square advance.
UndoMoveEnPassant(g, move) ==
  LET g1 == IF move.is_en_passant_move
              THEN [g EXCEPT
                      !.board = [[g.board EXCEPT ![move.end_row][move.end_col] = EMPTY]
                                    EXCEPT ![move.start_row][move.end_col] = move.piece_captured],
                      !.en_passant_possible = <<move.end_row, move.end_col>>]
              ELSE g
  IN IF move.piece_moved[2] = "p"
        /\ (move.start_row - move.end_row = 2 \/ move.end_row - move.start_row = 2)
       THEN [g1 EXCEPT !.en_passant_possible = <<>>]
       ELSE g1

\* GameState.undo_move, lines 135-147: castling_log is popped and the rights
\* are set to a copy of its new top, when it has one.
UndoMoveRights(g) ==
  IF g.castling_log = <<>> THEN g
  ELSE LET popped == SubSeq(g.castling_log, 1, Len(g.castling_log) - 1)
       IN [g EXCEPT !.castling_log = popped,
                    !.castling_rights = IF popped = <<>> THEN @ ELSE popped[Len(popped)]]

\* GameState.undo_move, lines 149-156: the rook of a castling move goes back.
UndoMoveCastling(g, move) ==
  IF ~move.is_castling_move THEN g
  ELSE IF move.end_col - move.start_col = 2
    THEN IF ~PyIndexOk(move.end_col + 1) THEN [g EXCEPT !.raised = TRUE]
         ELSE [g EXCEPT !.board =
                 [[g.board EXCEPT ![move.end_row][PyIndex(move.end_col + 1)] =
                                     g.board[move.end_row][PyIndex(move.end_col - 1)]]
                     EXCEPT ![move.end_row][PyIndex(move.end_col - 1)] = EMPTY]]
    ELSE IF ~PyIndexOk(move.end_col - 2) \/ ~PyIndexOk(move.end_col + 1)
           THEN [g EXCEPT !.raised = TRUE]
         ELSE [g EXCEPT !.board =
                 [[g.board EXCEPT ![move.end_row][PyIndex(move.end_col - 2)] =
                                     g.board[move.end_row][PyIndex(move.end_col + 1)]]
                     EXCEPT ![move.end_row][PyIndex(move.end_col + 1)] = EMPTY]]

\* GameState.undo_move, lines 158-165: the redo log and the promotion reset.
UndoMoveTail(g, move, add_to_redo) ==
  [g EXCEPT
     !.redo_log = IF add_to_redo THEN Append(@, move) ELSE @,
     !.pawn_promotion = IF move.is_pawn_promotion THEN FALSE ELSE @,
     !.promotion_square = IF move.is_pawn_promotion THEN <<>> ELSE @]

\* undo_move as it would be without the test of line 113: move_log.pop() on
\* an empty list raises IndexError.
undo_move_unguarded(gs, add_to_redo) ==
  IF Len(gs.move_log) = 0 THEN [gs EXCEPT !.raised = TRUE]
  ELSE LET move == gs.move_log[Len(gs.move_log)]
           g == UndoMoveCastling(
                  UndoMoveRights(UndoMoveEnPassant(UndoMoveHead(gs, move), move)), move)
       IN IF g.raised THEN g ELSE UndoMoveTail(g, move, add_to_redo)

\* GameState.undo_move
undo_move(gs, add_to_redo) ==
  IF Len(gs.move_log) = 0 THEN gs
  ELSE LET move == gs.move_log[Len(gs.move_log)]
           g == UndoMoveCastling(
                  UndoMoveRights(UndoMoveEnPassant(UndoMoveHead(gs, move), move)), move)
       IN IF g.raised THEN g ELSE UndoMoveTail(g, move, add_to_redo)

\* GameState.redo_move
redo_move(gs) ==
  IF Len(gs.redo_log) = 0 THEN gs
  ELSE make_move([gs EXCEPT !.redo_log = SubSeq(@, 1, Len(@) - 1)],
                 gs.redo_log[Len(gs.redo_log)])

-----------------------------------------------------------------------------
(* Castling moves, the draw rule and the legal moves.                      *)

\* GameState.get_king_side_castling_moves: the moves appended (raised: the
\* read of board[r][c + 1] or board[r][c + 2] is past the end of the row).
get_king_side_castling_moves(gs, r, c) ==
  IF ~PyIndexOk(c + 1) THEN [moves |-> <<>>, raised |-> TRUE]
  ELSE IF gs.board[r][PyIndex(c + 1)] # EMPTY THEN [moves |-> <<>>, raised |-> FALSE]
  ELSE IF ~PyIndexOk(c + 2) THEN [moves |-> <<>>, raised |-> TRUE]
  ELSE IF gs.board[r][PyIndex(c + 2)] = EMPTY
          /\ ~square_under_attack(gs, r, c + 1) /\ ~square_under_attack(gs, r, c + 2)
    THEN [moves |-> <<Move(<<r, c>>, <<r, c + 2>>, gs.board, FALSE, TRUE)>>,
          raised |-> FALSE]
  ELSE [moves |-> <<>>, raised |-> FALSE]

\* GameState.get_queen_side_castling_moves.  The columns c - 1, c - 2, c - 3
\* are never past the end of the row; a negative one counts from its end.
\* Move.__init__ reads board[r][c - 2] the same way.
get_queen_side_castling_moves(gs, r, c) ==
  IF gs.board[r][PyIndex(c - 1)] = EMPTY /\ gs.board[r][PyIndex(c - 2)] = EMPTY
     /\ gs.board[r][PyIndex(c - 3)] = EMPTY
     /\ ~square_under_attack(gs, r, c - 1) /\ ~square_under_attack(gs, r, c - 2)
    THEN [moves |-> <<[Move(<<r, c>>, <<r, PyIndex(c - 2)>>, gs.board, FALSE, TRUE)
                         EXCEPT !.end_col = c - 2]>>,
          raised |-> FALSE]
    ELSE [moves |-> <<>>, raised |-> FALSE]

\* GameState.get_castling_moves: the moves appended for the king at (r, c).
get_castling_moves(gs, r, c) ==
  IF square_under_attack(gs, r, c) THEN [moves |-> <<>>, raised |-> FALSE]
  ELSE LET king_side ==
             IF (gs.white_to_move /\ gs.castling_rights.white_king_side)
                \/ (~gs.white_to_move /\ gs.castling_rights.black_king_side)
               THEN get_king_side_castling_moves(gs, r, c)
               ELSE [moves |-> <<>>, raised |-> FALSE]
       IN IF king_side.raised THEN king_side
          ELSE IF (gs.white_to_move /\ gs.castling_rights.white_queen_side)
                  \/ (~gs.white_to_move /\ gs.castling_rights.black_queen_side)
            THEN LET queen_side == get_queen_side_castling_moves(gs, r, c)
                 IN [moves |-> king_side.moves \o queen_side.moves,
                     raised |-> queen_side.raised]
          ELSE king_side

\* check_for_draw, lines 441-447: the pieces of row r from column c on.
RECURSIVE PiecesInRow(_, _, _)
PiecesInRow(board, r, c) ==
  IF c >= 8 THEN <<>>
  ELSE (IF board[r][c] # EMPTY THEN <<board[r][c]>> ELSE <<>>)
       \o PiecesInRow(board, r, c + 1)

\* check_for_draw, lines 441-447: the pieces on the board from row r on.
RECURSIVE PiecesOnBoard(_, _)
PiecesOnBoard(board, r) ==
  IF r >= 8 THEN <<>> ELSE PiecesInRow(board, r, 0) \o PiecesOnBoard(board, r + 1)

\* Lines 454-458 as they would be if the loop took the first piece, king or
\* not.
NonKingPieceFirst(pieces_on_board, k) ==
  IF k > Len(pieces_on_board) THEN "" ELSE pieces_on_board[k][2]

\* check_for_draw, lines 454-458: the kind of the first piece that is no king.
RECURSIVE NonKingPiece(_, _)
NonKingPiece(pieces_on_board, k) ==
  IF k > Len(pieces_on_board) THEN ""
  ELSE IF SecondChar(pieces_on_board[k][2]) # "K" THEN SecondChar(pieces_on_board[k][2])
  ELSE NonKingPiece(pieces_on_board, k + 1)

\* check_for_draw, lines 463-477: the scan for the bishops from square number
\* i on.  The test of line 472 runs at every square; it reads element 0 of
\* both lists, and raises IndexError when one of them is empty.
RECURSIVE BishopScan(_, _, _, _)
BishopScan(board, i, white_bishops, black_bishops) ==
  IF i >= 64 THEN "False"
  ELSE LET piece == board[i \div 8][i % 8]
           wb == IF piece = <<"w", "B">> THEN Append(white_bishops, <<i \div 8, i % 8>>)
                 ELSE white_bishops
           bb == IF piece = <<"b", "B">> THEN Append(black_bishops, <<i \div 8, i % 8>>)
                 ELSE black_bishops
       IN IF Len(wb) = 1 \/ Len(bb) = 1
            THEN IF Len(wb) = 0 \/ Len(bb) = 0 THEN "raise"
                 ELSE IF (wb[1][1] + wb[1][2]) % 2 = (bb[1][1] + bb[1][2]) % 2 THEN "True"
                 ELSE BishopScan(board, i + 1, wb, bb)
            ELSE BishopScan(board, i + 1, wb, bb)

\* GameState.check_for_draw: "True", "False", or "raise" for the IndexError.
check_for_draw(gs) ==
  LET pieces_on_board == PiecesOnBoard(gs.board, 0)
  IN IF Len(pieces_on_board) = 2 THEN "True"
     ELSE IF Len(pieces_on_board) = 3
       THEN IF NonKingPiece(pieces_on_board, 1) \in {"N", "B"} THEN "True" ELSE "False"
     ELSE IF Len(pieces_on_board) = 4 THEN BishopScan(gs.board, 0, <<>>, <<>>)     ELSE "False"

\* list.remove(x) as it would be if it removed nothing.
ListRemoveNothing(moves, x) == moves

\* list.remove(x): the list without its first element equal to x (Move.__eq__).
ListRemove(moves, x) ==
  LET equal == {j \in 1..Len(moves) : MoveEq(moves[j], x)}
      first == CHOOSE j \in equal : \A k \in equal : j <= k
  IN IF equal = {} THEN moves
     ELSE SubSeq(moves, 1, first - 1) \o SubSeq(moves, first + 1, Len(moves))

\* get_valid_moves, lines 217-224: one iteration of the loop, for index i
\* (counted from 1).  The move is made, tested and undone on the object
\* itself; moves[i] past the end of the list raises IndexError.
TrialMove(tried, i) ==
  IF tried.gs.raised THEN tried
  ELSE IF i > Len(tried.moves) THEN [tried EXCEPT !.gs.raised = TRUE]
  ELSE LET made == make_move(tried.gs, tried.moves[i])
       IN IF made.raised THEN [tried EXCEPT !.gs = made]
          ELSE [gs |-> undo_move(made, FALSE),
                moves |-> IF in_check([made EXCEPT !.white_to_move = ~made.white_to_move])
                            THEN ListRemove(tried.moves, tried.moves[i])
                            ELSE tried.moves]

\* get_valid_moves, lines 216-224: the iterations of the loop for the indices
\* hi down to lo.
RECURSIVE TrialLoop(_, _, _)
TrialLoop(tried, lo, hi) ==
  IF lo > hi THEN tried
  ELSE TrialLoop(TrialMove(tried, hi), lo, hi - 1)

\* get_valid_moves, lines 226-233: checkmate and stalemate.
SetMateFlags(gs, moves) ==
  IF Len(moves) = 0
    THEN IF in_check(gs) THEN [gs EXCEPT !.checkmate = TRUE]
         ELSE [gs EXCEPT !.stalemate = TRUE]
    ELSE [gs EXCEPT !.checkmate = FALSE, !.stalemate = FALSE]

\* get_valid_moves, lines 235-242, as they would be without lines 240-241:
\* the two saved fields are not written back.
ValidMovesReturnUnrestored(flagged, moves, is_draw, temp_en_passant_possible, temp_castling_rights) ==
  IF is_draw = "raise" THEN [gs |-> [flagged EXCEPT !.raised = TRUE], moves |-> <<>>]
  ELSE [gs |-> [flagged EXCEPT !.draw = (is_draw = "True")], moves |-> moves]

\* get_valid_moves, lines 235-242: the draw flag, the restoration of the two
\* saved fields and the return.
ValidMovesReturn(flagged, moves, is_draw, temp_en_passant_possible, temp_castling_rights) ==
  IF is_draw = "raise" THEN [gs |-> [flagged EXCEPT !.raised = TRUE], moves |-> <<>>]
  ELSE [gs |-> [flagged EXCEPT !.draw = (is_draw = "True"),
                               !.en_passant_possible = temp_en_passant_possible,
                               !.castling_rights = temp_castling_rights],
        moves |-> moves]

\* get_valid_moves, lines 226-242, after the loop over the candidates.
ValidMovesAfterLoop(tried, temp_en_passant_possible, temp_castling_rights) ==
  IF tried.gs.raised THEN tried
  ELSE ValidMovesReturn(SetMateFlags(tried.gs, tried.moves), tried.moves,
                        check_for_draw(tried.gs),
                        temp_en_passant_possible, temp_castling_rights)

\* get_valid_moves, lines 215-242, on the candidate moves of lines 209-213.
ValidMovesOf(gs, candidates) ==
  ValidMovesAfterLoop(TrialLoop([gs |-> gs, moves |-> candidates], 1, Len(candidates)),
                      gs.en_passant_possible, gs.castling_rights)

\* get_valid_moves, lines 209-242, with the castling moves of lines 210-213.
ValidMovesWith(gs, castling) ==
  IF castling.raised THEN [gs |-> [gs EXCEPT !.raised = TRUE], moves |-> <<>>]
  ELSE ValidMovesOf(gs, get_all_possible_moves(gs) \o castling.moves)

\* GameState.get_valid_moves: the object after the call and the list returned.
get_valid_moves(gs) ==
  ValidMovesWith(gs, IF gs.white_to_move
                       THEN get_castling_moves(gs, gs.white_king_location[1],
                                               gs.white_king_location[2])
                       ELSE get_castling_moves(gs, gs.black_king_location[1],
                                               gs.black_king_location[2]))

-----------------------------------------------------------------------------
(* The saved game.                                                         *)
(*                                                                         *)
(* A file is a list of lines, a line the list of its words (the parts      *)
(* between blanks), and a word a list of characters; the word              *)
(* "promotion=X" is kept as the pair <<"promotion=", X>>, X being what     *)
(* split("=")[1] gives.                                                    *)

\* saved_game.txt before the first save: there is no such file.
NoFile == [exists |-> FALSE, lines |-> <<>>]

\* Move.ranks_to_rows
ranks_to_rows ==
  [rank \in {"1", "2", "3", "4", "5", "6", "7", "8"} |->
     CASE rank = "1" -> 7 [] rank = "2" -> 6 [] rank = "3" -> 5 [] rank = "4" -> 4
       [] rank = "5" -> 3 [] rank = "6" -> 2 [] rank = "7" -> 1 [] rank = "8" -> 0]

\* Move.rows_to_ranks: the inverse dictionary.
rows_to_ranks ==
  [row \in {ranks_to_rows[rank] : rank \in DOMAIN ranks_to_rows} |->
     CHOOSE rank \in DOMAIN ranks_to_rows : ranks_to_rows[rank] = row]

\* Move.files_to_cols
files_to_cols ==
  [file_letter \in {"a", "b", "c", "d", "e", "f", "g", "h"} |->
     CASE file_letter = "a" -> 0 [] file_letter = "b" -> 1 [] file_letter = "c" -> 2
       [] file_letter = "d" -> 3 [] file_letter = "e" -> 4 [] file_letter = "f" -> 5
       [] file_letter = "g" -> 6 [] file_letter = "h" -> 7]

\* Move.cols_to_files: the inverse dictionary.
cols_to_files ==
  [col \in {files_to_cols[file_letter] : file_letter \in DOMAIN files_to_cols} |->
     CHOOSE file_letter \in DOMAIN files_to_cols : files_to_cols[file_letter] = col]

\* get_rank_file as it would be with the rank written before the file.
get_rank_file_rank_first(r, c) == <<rows_to_ranks[r], cols_to_files[c]>>

\* Move.get_rank_file
get_rank_file(r, c) == <<cols_to_files[c], rows_to_ranks[r]>>

\* Move.get_chess_notation
get_chess_notation(move) ==
  get_rank_file(move.start_row, move.start_col) \o get_rank_file(move.end_row, move.end_col)

\* get_chess_notation returns: every row and column is a key of its
\* dictionary (a lookup of another key raises KeyError).
NotationKeys(move) ==
  /\ move.start_row \in DOMAIN rows_to_ranks /\ move.end_row \in DOMAIN rows_to_ranks
  /\ move.start_col \in DOMAIN cols_to_files /\ move.end_col \in DOMAIN cols_to_files

\* Move.get_row_col_from_notation returns: the four characters are keys.
CoordinateKeys(notation) ==
  /\ notation[1] \in DOMAIN files_to_cols /\ notation[2] \in DOMAIN ranks_to_rows
  /\ notation[3] \in DOMAIN files_to_cols /\ notation[4] \in DOMAIN ranks_to_rows

\* Move.get_row_col_from_notation
get_row_col_from_notation(notation) ==
  << <<ranks_to_rows[notation[2]], files_to_cols[notation[1]]>>,
     <<ranks_to_rows[notation[4]], files_to_cols[notation[3]]>> >>

\* f"{promoted_to}": the text of a promotion piece.
Str(promotion_piece) == IF promotion_piece = None THEN "None" ELSE promotion_piece

\* save_game_state, line 486: the header line.
HeaderLine == << <<"#">>, <<"C", "h", "e", "s", "s">>, <<"G", "a", "m", "e">>,
                 <<"S", "a", "v", "e">>, <<"F", "i", "l", "e">> >>

\* save_game_state, lines 488-499: the line written for one move.
SaveLine(move) ==
  <<get_chess_notation(move)>>
    \o (IF move.is_en_passant_move THEN << <<"e", "p">> >>
        ELSE IF move.is_castling_move THEN << <<"c", "a", "s", "t", "l", "e">> >>
        ELSE <<>>)
    \o (IF SecondChar(move.piece_moved[2]) = "p" /\ (move.end_row = 0 \/ move.end_row = 7)
          THEN << <<"promotion=", Str(move.promotion_piece)>> >>
          ELSE <<>>)

\* save_game_state, lines 487-499: the lines written for the moves of a log,
\* up to the first whose notation raises.
RECURSIVE SaveLines(_)
SaveLines(log) ==
  IF log = <<>> THEN [raised |-> FALSE, lines |-> <<>>]
  ELSE IF ~NotationKeys(log[1]) THEN [raised |-> TRUE, lines |-> <<>>]
  ELSE LET rest == SaveLines(Tail(log))
       IN [raised |-> rest.raised, lines |-> <<SaveLine(log[1])>> \o rest.lines]

\* GameState.save_game_state: the file written, and whether the call raised.
save_game_state(gs) ==
  LET saved == SaveLines(gs.move_log)
  IN [raised |-> saved.raised,
      file |-> [exists |-> TRUE, lines |-> <<HeaderLine>> \o saved.lines]]

\* load_game_state, line 507: the lines kept, those that are not blank and do
\* not begin with '#'.
KeptLines(lines) ==
  SelectSeq(lines, LAMBDA line : line # <<>> /\ line[1][1] # "#")

\* load_game_state, lines 517-519: promotion_piece after the loop over the
\* parts from index k on.
RECURSIVE PromotionPart(_, _, _)
PromotionPart(notation_parts, k, promotion_piece) ==
  IF k > Len(notation_parts) THEN promotion_piece
  ELSE PromotionPart(notation_parts, k + 1,
                     IF notation_parts[k][1] = "promotion="
                       THEN notation_parts[k][2] ELSE promotion_piece)

\* Lines 525-527 as they would be if only the start square were compared.
RECURSIVE FirstMatchByStart(_, _, _, _)
FirstMatchByStart(possible_moves, start_sq, end_sq, k) ==
  IF k > Len(possible_moves) THEN 0
  ELSE IF possible_moves[k].start_row = start_sq[1] /\ possible_moves[k].start_col = start_sq[2]
    THEN k
  ELSE FirstMatchByStart(possible_moves, start_sq, end_sq, k + 1)

\* load_game_state, lines 525-527: the index of the first move of the list
\* from index k on with the given start and end squares, 0 if there is none.
RECURSIVE FirstMatch(_, _, _, _)
FirstMatch(possible_moves, start_sq, end_sq, k) ==
  IF k > Len(possible_moves) THEN 0
  ELSE IF possible_moves[k].start_row = start_sq[1] /\ possible_moves[k].start_col = start_sq[2]
          /\ possible_moves[k].end_row = end_sq[1] /\ possible_moves[k].end_col = end_sq[2]
    THEN k
  ELSE FirstMatch(possible_moves, start_sq, end_sq, k + 1)

\* load_game_state, lines 529-534: the matched move with the promotion flag
\* of its line.
FlaggedMove(gs, move, promotion_piece) ==
  IF Truthy(promotion_piece)
    THEN [move EXCEPT !.promotion_piece = promotion_piece,
                      !.piece_moved = <<move.piece_moved[1], "p">>,
                      !.piece_captured = gs.board[move.end_row][move.end_col]]
    ELSE move

\* load_game_state, lines 523-539: the replay of a line of four characters,
\* given what get_valid_moves() returned.
ReplayMove(loaded, line, squares_of_line, res) ==
  IF res.gs.raised THEN [loaded EXCEPT !.gs = res.gs]
  ELSE LET k == FirstMatch(res.moves, squares_of_line[1], squares_of_line[2], 1)
       IN IF k = 0
            THEN [gs |-> res.gs,
                  messages |-> Append(loaded.messages,
                                      [title |-> "Invalid move", line |-> line])]
            ELSE [gs |-> make_move(res.gs, FlaggedMove(res.gs, res.moves[k],
                                                       PromotionPart(line, 2, None))),
                  messages |-> loaded.messages]

\* load_game_state, lines 512-543: one iteration of the loop over the lines.
LoadLine(loaded, line) ==
  IF loaded.gs.raised THEN loaded
  ELSE IF Len(line[1]) = 4
    THEN IF ~CoordinateKeys(line[1]) THEN [loaded EXCEPT !.gs.raised = TRUE]
         ELSE ReplayMove(loaded, line, get_row_col_from_notation(line[1]),
                         get_valid_moves(loaded.gs))
  ELSE [loaded EXCEPT !.messages = Append(@, [title |-> "Invalid notation format",
                                               line |-> line])]

\* load_game_state, lines 509-544: the loop over the lines from index k on.
RECURSIVE LoadLines(_, _, _)
LoadLines(loaded, lines, k) ==
  IF k > Len(lines) THEN loaded
  ELSE LoadLines(LoadLine(loaded, lines[k]), lines, k + 1)

\* GameState.load_game_state: the GameState returned and the error boxes
\* shown; open() of a file that does not exist raises.
load_game_state(file) ==
  IF ~file.exists THEN [gs |-> [NewGameState EXCEPT !.raised = TRUE], messages |-> <<>>]
  ELSE LoadLines([gs |-> NewGameState, messages |-> <<>>], KeptLines(file.lines), 1)

-----------------------------------------------------------------------------
(* The event loop of ChessMain.main.                                       *)
(*                                                                         *)
(* One pass of "while run" handles the events that have arrived, one       *)
(* action each, and then runs EndOfPass (lines 447-469).  Display-only     *)
(* state (animate, move_log_offset, the window) is left out.  An exception *)
(* that escapes a GameState method ends the process: no action is enabled  *)
(* once game_state.raised holds.                                           *)

VARIABLES
  game_state,        \* main: game_state
  valid_moves,       \* main: valid_moves
  move_made,         \* main: move_made
  game_over,         \* main: game_over
  square_selected,   \* main: square_selected
  player_clicks,     \* main: player_clicks
  promotion_buttons, \* main: promotion_buttons is not empty
  script,            \* the opening of this run: the user's inputs still to come
  played,            \* the moves, undos, redos and resets asked for after it
  squares,           \* the board squares the user clicks on after it
  file,              \* saved_game.txt
  messages           \* the error boxes load_game_state showed, last call

vars == <<game_state, valid_moves, move_made, game_over, square_selected,
          player_clicks, promotion_buttons, script, played, squares, file,
          messages>>

\* The moves, undos, redos and resets the user asks for after the opening.
MaxPlayed == 3

\* The longest list of pending clicks the user lets build up.
MaxClicks == 3

\* The Move objects of a log after valid_moves was assigned a new list: none
\* of them is an element of that list.
RECURSIVE Unshare(_)
Unshare(log) ==
  IF log = <<>> THEN <<>>
  ELSE <<[log[1] EXCEPT !.in_valid_moves = FALSE]>> \o Unshare(Tail(log))

\* "valid_moves = game_state.get_valid_moves()": the GameState after the call
\* and the list assigned.
AssignValidMoves(res) ==
  [gs |-> [res.gs EXCEPT !.move_log = Unshare(@), !.redo_log = Unshare(@)],
   moves |-> res.moves]

CallGetValidMoves(gs) == AssignValidMoves(get_valid_moves(gs))

\* The user's next input: while the opening lasts it is the opening's next
\* input, of the given kind; after it, one more of the MaxPlayed inputs.
NextInput(kind) ==
  IF script # <<>>
    THEN script[1].kind = kind /\ script' = Tail(script) /\ played' = played
    ELSE played < MaxPlayed /\ script' = script /\ played' = played + 1

\* Lines 364-365 as they would be without line 365: the redo log is kept.
ApplyClickedMoveKeepRedo(gs, move) ==
  make_move(gs, [move EXCEPT !.in_valid_moves = TRUE])

\* main, lines 364-365: the clicked move is made and the redo log emptied.
ApplyClickedMove(gs, move) ==
  [make_move(gs, [move EXCEPT !.in_valid_moves = TRUE]) EXCEPT !.redo_log = <<>>]

\* main, lines 362-369: every element of valid_moves equal to the clicked
\* move is made, from index i on.
RECURSIVE ApplyMatches(_, _, _, _)
ApplyMatches(gs, moves, clicked_ID, i) ==
  IF i > Len(moves) \/ gs.raised THEN gs
  ELSE IF move_ID(moves[i].start_row, moves[i].start_col,
                  moves[i].end_row, moves[i].end_col) = clicked_ID
    THEN ApplyMatches(ApplyClickedMove(gs, moves[i]), moves, clicked_ID, i + 1)
  ELSE ApplyMatches(gs, moves, clicked_ID, i + 1)

\* The promotion choice as it would be if every button made a queen.
ChoosePromotionQueen(gs, piece) ==
  [gs EXCEPT
     !.board[gs.promotion_square[1]][gs.promotion_square[2]] =
        <<gs.promotion_piece_color, "Q">>,
     !.move_log[Len(gs.move_log)].promotion_piece = "Q",
     !.pawn_promotion = FALSE]

\* The promotion choice, lines 337-343, on the GameState: the piece is put on
\* the promotion square and recorded on the last move.
ChoosePromotion(gs, piece) ==
  [gs EXCEPT
     !.board[gs.promotion_square[1]][gs.promotion_square[2]] =
        <<gs.promotion_piece_color, piece>>,
     !.move_log[Len(gs.move_log)].promotion_piece = piece,
     !.pawn_promotion = FALSE]

\* "last_move.promotion_piece = piece" as the other holders of the same Move
\* object see it.
RECURSIVE Shared(_, _, _)
Shared(moves, last_move, piece) ==
  IF moves = <<>> THEN <<>>
  ELSE <<IF last_move.in_valid_moves /\ MoveEq(moves[1], last_move)
           THEN [moves[1] EXCEPT !.promotion_piece = piece] ELSE moves[1]>>
       \o Shared(Tail(moves), last_move, piece)

RECURSIVE SharedLog(_, _, _)
SharedLog(log, last_move, piece) ==
  IF log = <<>> THEN <<>>
  ELSE <<IF last_move.in_valid_moves /\ log[1].in_valid_moves /\ MoveEq(log[1], last_move)
           THEN [log[1] EXCEPT !.promotion_piece = piece] ELSE log[1]>>
       \o SharedLog(Tail(log), last_move, piece)

\* main, lines 447-469: the code after the event loop of one pass.
EndOfPass ==
  /\ ~game_state.raised
  /\ \E res \in {IF move_made THEN CallGetValidMoves(game_state)
                 ELSE [gs |-> game_state, moves |-> valid_moves]} :
       /\ game_state' = res.gs
       /\ valid_moves' = res.moves
       /\ move_made' = FALSE
       /\ promotion_buttons' = (promotion_buttons
                                \/ (~res.gs.raised /\ res.gs.pawn_promotion))
       /\ game_over' = (game_over
                        \/ (~res.gs.raised
                            /\ (res.gs.checkmate \/ res.gs.stalemate \/ res.gs.draw)))
  /\ UNCHANGED <<square_selected, player_clicks, script, played, squares, file, messages>>

\* The mouse handler, lines 334-345: a click on the promotion button of piece.
ClickPromotion(piece) ==
  /\ ~game_state.raised
  /\ game_state.pawn_promotion
  /\ promotion_buttons
  /\ IF script # <<>>
       THEN script[1].kind = "promote" /\ script[1].piece = piece /\ script' = Tail(script)
       ELSE script' = script
  /\ LET last_move == game_state.move_log[Len(game_state.move_log)]
         chosen == ChoosePromotion(game_state, piece)
     IN /\ game_state' = [chosen EXCEPT !.move_log = SharedLog(@, last_move, piece),
                                          !.redo_log = SharedLog(@, last_move, piece)]
        /\ valid_moves' = Shared(valid_moves, last_move, piece)
  /\ move_made' = TRUE
  /\ UNCHANGED <<game_over, square_selected, player_clicks, promotion_buttons,
                 played, squares, file, messages>>

\* The mouse handler, lines 347-371: a click on the board square sq.
ClickSquare(sq) ==
  /\ ~game_state.raised
  /\ ~game_state.pawn_promotion
  /\ ~game_over
  /\ script = <<>>
  /\ script' = script
  /\ IF square_selected = sq
       THEN /\ square_selected' = <<>>
            /\ player_clicks' = <<>>
            /\ UNCHANGED <<game_state, move_made, played>>
       ELSE LET clicks == Append(player_clicks, sq)
                clicked_ID == move_ID(clicks[1][1], clicks[1][2], clicks[2][1], clicks[2][2])
                applied == ApplyMatches(game_state, valid_moves, clicked_ID, 1)
                matched == Len(clicks) = 2
                           /\ \E i \in 1..Len(valid_moves) :
                                move_ID(valid_moves[i].start_row, valid_moves[i].start_col,
                                        valid_moves[i].end_row, valid_moves[i].end_col)
                                  = clicked_ID
            IN IF matched
                 THEN /\ played < MaxPlayed
                      /\ game_state' = applied
                      /\ move_made' = TRUE
                      /\ square_selected' = <<>>
                      /\ player_clicks' = <<>>
                      /\ played' = played + 1
                 ELSE /\ Len(clicks) <= MaxClicks
                      /\ square_selected' = sq
                      /\ player_clicks' = IF Len(clicks) = 2 /\ ~move_made THEN <<sq>>
                                          ELSE clicks
                      /\ UNCHANGED <<game_state, move_made, played>>
  /\ UNCHANGED <<valid_moves, game_over, promotion_buttons, squares, file, messages>>

\* A click on a button of the menu panel passes through the board branch
\* first (lines 347-355): its column is 8 or more, which deselects.
PanelClick ==
  IF game_state.pawn_promotion \/ game_over
    THEN UNCHANGED <<square_selected, player_clicks>>
    ELSE square_selected' = <<>> /\ player_clicks' = <<>>

\* The "Move back" button, lines 394-399.
ClickUndo ==
  /\ ~game_state.raised
  /\ PanelClick
  /\ IF game_state.move_log # <<>>
       THEN /\ NextInput("undo")
            /\ game_state' = undo_move(game_state, TRUE)
            /\ move_made' = TRUE
            /\ game_over' = FALSE
       ELSE /\ script = <<>>
            /\ UNCHANGED <<game_state, move_made, game_over, script, played>>
  /\ UNCHANGED <<valid_moves, promotion_buttons, squares, file, messages>>

\* The "Move forward" button, lines 404-409.
ClickRedo ==
  /\ ~game_state.raised
  /\ PanelClick
  /\ IF game_state.redo_log # <<>>
       THEN /\ NextInput("redo")
            /\ game_state' = redo_move(game_state)
            /\ move_made' = TRUE
            /\ game_over' = FALSE
       ELSE /\ script = <<>>
            /\ UNCHANGED <<game_state, move_made, game_over, script, played>>
  /\ UNCHANGED <<valid_moves, promotion_buttons, squares, file, messages>>

\* The "Save game" button, lines 373-374: nothing is saved while a promotion
\* is pending.
ClickSave ==
  /\ ~game_state.raised
  /\ ~game_state.pawn_promotion
  /\ PanelClick
  /\ NextInput("save")
  /\ \E saved \in {save_game_state(game_state)} :
       /\ file' = saved.file
       /\ game_state' = [game_state EXCEPT !.raised = saved.raised]
  /\ UNCHANGED <<valid_moves, move_made, game_over, promotion_buttons, squares,
                 messages>>

\* The "Load game" button, lines 380-389.
ClickLoad ==
  /\ ~game_state.raised
  /\ NextInput("load")
  /\ \E loaded \in {load_game_state(file)} :
       /\ messages' = loaded.messages
       /\ IF loaded.gs.raised
            THEN /\ game_state' = [game_state EXCEPT !.raised = TRUE]
                 /\ PanelClick
                 /\ UNCHANGED <<valid_moves, move_made>>
            ELSE /\ \E res \in {CallGetValidMoves(loaded.gs)} :
                      game_state' = res.gs /\ valid_moves' = res.moves
                 /\ move_made' = TRUE
                 /\ square_selected' = <<>>
                 /\ player_clicks' = <<>>
  /\ UNCHANGED <<game_over, promotion_buttons, squares, file>>

\* The "Reset game" button, lines 415-421.
ClickReset ==
  /\ ~game_state.raised
  /\ NextInput("reset")
  /\ \E res \in {CallGetValidMoves(NewGameState)} :
       game_state' = res.gs /\ valid_moves' = res.moves
  /\ square_selected' = <<>>
  /\ player_clicks' = <<>>
  /\ move_made' = FALSE
  /\ UNCHANGED <<game_over, promotion_buttons, squares, file, messages>>

-----------------------------------------------------------------------------
(* Runs.                                                                   *)

\* Squares by name: <<row, col>> with row 0 the eighth rank and column 0 the
\* a-file (Move.ranks_to_rows, Move.files_to_cols).
a1 == <<7, 0>>
a2 == <<6, 0>>
a3 == <<5, 0>>
a4 == <<4, 0>>
a5 == <<3, 0>>
a6 == <<2, 0>>
a7 == <<1, 0>>
a8 == <<0, 0>>
b6 == <<2, 1>>
b7 == <<1, 1>>
c1 == <<7, 2>>
c3 == <<5, 2>>
c5 == <<3, 2>>
c6 == <<2, 2>>
c7 == <<1, 2>>
c8 == <<0, 2>>
d1 == <<7, 3>>
d3 == <<5, 3>>
d4 == <<4, 3>>
d5 == <<3, 3>>
d6 == <<2, 3>>
d7 == <<1, 3>>
d8 == <<0, 3>>
e1 == <<7, 4>>
e2 == <<6, 4>>
e3 == <<5, 4>>
e4 == <<4, 4>>
e5 == <<3, 4>>
e7 == <<1, 4>>
e8 == <<0, 4>>
f1 == <<7, 5>>
f2 == <<6, 5>>
f3 == <<5, 5>>
f8 == <<0, 5>>
g1 == <<7, 6>>
g2 == <<6, 6>>
g3 == <<5, 6>>
g4 == <<4, 6>>
h1 == <<7, 7>>
h3 == <<5, 7>>
h4 == <<4, 7>>
h5 == <<3, 7>>
h7 == <<1, 7>>

\* The promotion buttons the user clicks on (draw_promotion_window offers
\* R, Q, B and N).
PromotionChoices == {"Q", "N"}

\* An input of an opening: the two clicks that ask for the move from one
\* square to another.
Mv(from, to) == [kind |-> "move", from |-> from, to |-> to, piece |-> None]

\* An input of an opening: the click on the "Move back" button.
Un == [kind |-> "undo", from |-> <<>>, to |-> <<>>, piece |-> None]

\* An input of an opening: the click on the promotion button of piece.
Pr(piece) == [kind |-> "promote", from |-> <<>>, to |-> <<>>, piece |-> piece]

\* A click on "Move forward", "Save game" or "Load game" in a run's opening.
Rd == [kind |-> "redo", from |-> <<>>, to |-> <<>>, piece |-> None]

\* The lines of an edited file: two moves of a game, and lines that are no
\* move at the place they stand (an advance of three squares), too short,
\* too long, with a file letter past h, with a rank past 8.
FileLine(notation) == <<notation>>

GoodFirst == FileLine(<<"e", "2", "e", "4">>)

GoodSecond == FileLine(<<"e", "7", "e", "5">>)

BadLines ==
  { FileLine(<<"e", "2", "e", "5">>),
    FileLine(<<"e", "2", "e">>),
    FileLine(<<"e", "2", "e", "4", "q">>),
    FileLine(<<"i", "2", "e", "4">>),
    FileLine(<<"e", "2", "e", "9">>) }

\* A line with the flag "promotion=Q" after its notation.
FlaggedLine(notation) == <<notation, <<"promotion=", "Q">> >>

\* saved_game.txt as the user left it: the header, then a bad line before
\* the first move or between the first and the second, or the flag
\* "promotion=Q" on a knight's or a king's move.
EditedFiles ==
  { [exists |-> TRUE, lines |-> <<HeaderLine, bad, GoodFirst>>] : bad \in BadLines }
  \cup { [exists |-> TRUE, lines |-> <<HeaderLine, GoodFirst, bad, GoodSecond>>] :
           bad \in BadLines }
  \cup { [exists |-> TRUE,
          lines |-> <<HeaderLine, FlaggedLine(<<"g", "1", "f", "3">>), GoodSecond>>],
         [exists |-> TRUE,
          lines |-> <<HeaderLine, GoodFirst, GoodSecond,
                      FlaggedLine(<<"e", "1", "e", "2">>)>>] }

\* The runs: an opening, played from the starting position through the event
\* loop one input a pass, and the squares the user clicks on after it.
\*   1. no opening;
\*   2. 1.Nf3 d5 2.g3 d4 3.Bg2 d3 4.a3 dxe2: White may castle king-side while
\*      a black pawn stands on e2;
\*   3. 1.e4 a6 2.e5: Black's d-pawn may pass the white pawn on e5;
\*   4. 1.a4 h5 2.a5 h4 3.a6 h3 4.axb7: the white pawn on b7 promotes by
\*      capturing on a8 or c8;
\*   5. 1.e4 h5 2.Ke2 h4 3.Ke3 h3 4.a3 hxg2, the black pawn on g2 promoting
\*      by a capture on f1 or h1, then three times 5.a4 and "Move back";
\*   6. 1.a4 h5 2.a5 h4 3.a6 h3 4.axb7 c5 5.bxa8=Q: Black's c-pawn has
\*      advanced two squares beside the pawn on d7, and White has promoted;
\*   7. 1.a4 h5 2.a5 h4 3.a6 h3 4.axb7 hxg2: both sides have a pawn that
\*      promotes by a capture, White to move;
\*   8. the same and 5.Ra2 a6: White has given up the queen-side right, and
\*      every get_valid_moves() call tries two promotion moves.
Scenarios ==
  { [line |-> <<>>,
     squares |-> {e2, e4, e7, e5},
     file |-> NoFile],
    [line |-> << Mv(g1, f3), Mv(d7, d5), Mv(g2, g3), Mv(d5, d4),
                 Mv(f1, g2), Mv(d4, d3), Mv(a2, a3), Mv(d3, e2) >>,
     squares |-> {e1, g1, h1, e2, d1, a7, a6},
     file |-> NoFile],
    [line |-> << Mv(e2, e4), Mv(a7, a6), Mv(e4, e5) >>,
     squares |-> {d7, d5, d6, e5, e7},
     file |-> NoFile],
    [line |-> << Mv(a2, a4), Mv(h7, h5), Mv(a4, a5), Mv(h5, h4),
                 Mv(a5, a6), Mv(h4, h3), Mv(a6, b7) >>,
     squares |-> {a7, a5, b7, a8, c8},
     file |-> NoFile],
    [line |-> << Mv(e2, e4), Mv(h7, h5), Mv(e1, e2), Mv(h5, h4),
                 Mv(e2, e3), Mv(h4, h3), Mv(a2, a3), Mv(h3, g2),
                 Mv(a3, a4), Un, Mv(a3, a4), Un, Mv(a3, a4), Un >>,
     squares |-> {e3, g3},
     file |-> NoFile],
    [line |-> << Mv(a2, a4), Mv(h7, h5), Mv(a4, a5), Mv(h5, h4),
                 Mv(a5, a6), Mv(h4, h3), Mv(a6, b7), Mv(c7, c5),
                 Mv(b7, a8), Pr("Q") >>,
     squares |-> {d7, c6, d6},
     file |-> NoFile],
    [line |-> << Mv(a2, a4), Mv(h7, h5), Mv(a4, a5), Mv(h5, h4),
                 Mv(a5, a6), Mv(h4, h3), Mv(a6, b7), Mv(h3, g2) >>,
     squares |-> {b7, a8},
     file |-> NoFile],
    [line |-> << Mv(a2, a4), Mv(h7, h5), Mv(a4, a5), Mv(h5, h4),
                 Mv(a5, a6), Mv(h4, h3), Mv(a6, b7), Mv(h3, g2),
                 Mv(a1, a2), Mv(a7, a6) >>,
     squares |-> {a2, a1},
     file |-> NoFile] }

\* The runs of the event loop under arbitrary clicks: no opening, the game
\* 1.f3 e5 2.g4 Qh4 that ends in checkmate, and the opening that leaves the
\* white pawn on b7 with White to move.
HostScenarios ==
  { [line |-> <<>>,
     squares |-> {e2, e4, e7, e5},
     file |-> NoFile],
    [line |-> << Mv(f2, f3), Mv(e7, e5), Mv(g2, g4), Mv(d8, h4) >>,
     squares |-> {e2, e4},
     file |-> NoFile],
    [line |-> << Mv(a2, a4), Mv(h7, h5), Mv(a4, a5), Mv(h5, h4),
                 Mv(a5, a6), Mv(h4, h3), Mv(a6, b7), Mv(a7, a5) >>,
     squares |-> {b7, a8},
     file |-> NoFile] }

\* main, lines 300-311, at the start of one of the given runs.
Start(scenarios) ==
  \E sc \in scenarios :
    \E h \in {CallGetValidMoves(NewGameState)} :
      /\ game_state = h.gs
      /\ valid_moves = h.moves
      /\ move_made = FALSE
      /\ game_over = FALSE
      /\ square_selected = <<>>
      /\ player_clicks = <<>>
      /\ promotion_buttons = FALSE
      /\ script = sc.line
      /\ played = 0
      /\ squares = sc.squares
      /\ file = sc.file
      /\ messages = <<>>

Init == Start(Scenarios)

HostInit == Start(HostScenarios)

\* Two clicks, on the start and the end square of valid_moves[k], handled
\* while no click is pending and valid_moves is the list of the position on
\* the board: ClickSquare twice.
PlayLegal(k) ==
  /\ ~game_state.raised
  /\ ~game_state.pawn_promotion
  /\ ~game_over
  /\ ~move_made
  /\ player_clicks = <<>>
  /\ IF script # <<>>
       THEN /\ <<valid_moves[k].start_row, valid_moves[k].start_col>> = script[1].from
            /\ <<valid_moves[k].end_row, valid_moves[k].end_col>> = script[1].to
       ELSE /\ <<valid_moves[k].start_row, valid_moves[k].start_col>> \in squares
            /\ <<valid_moves[k].end_row, valid_moves[k].end_col>> \in squares
  /\ NextInput("move")
  /\ game_state' = ApplyMatches(game_state, valid_moves,
                                move_ID(valid_moves[k].start_row, valid_moves[k].start_col,
                                        valid_moves[k].end_row, valid_moves[k].end_col), 1)
  /\ move_made' = TRUE
  /\ square_selected' = <<>>
  /\ player_clicks' = <<>>
  /\ UNCHANGED <<valid_moves, game_over, promotion_buttons, squares, file, messages>>

\* Legal play: every move is chosen from the list of the position on the
\* board.
Next ==
  \/ \E k \in 1..Len(valid_moves) : PlayLegal(k)
  \/ \E piece \in PromotionChoices : ClickPromotion(piece)
  \/ ClickUndo
  \/ ClickRedo
  \/ EndOfPass

Spec == Init /\ [][Next]_vars

\* The runs with the Save and Load buttons: from the start, before a
\* promotion, after a promotion whose window never opened, after an undo and
\* a redo, and from the start with a file the user has edited.
FileScenarios ==
  { [line |-> <<>>,
     squares |-> {e2, e4, e7, e5},
     file |-> NoFile],
    [line |-> << Mv(a2, a4), Mv(h7, h5), Mv(a4, a5), Mv(h5, h4),
                 Mv(a5, a6), Mv(h4, h3), Mv(a6, b7), Mv(a7, a5) >>,
     squares |-> {b7, a8},
     file |-> NoFile],
    [line |-> << Mv(a2, a4), Mv(h7, h5), Mv(a4, a5), Mv(h5, h4),
                 Mv(a5, a6), Mv(h4, h3), Mv(a6, b7), Mv(h3, g2) >>,
     squares |-> {b7, a8},
     file |-> NoFile],
    [line |-> << Mv(a2, a4), Mv(h7, h5), Mv(a4, a5), Mv(h5, h4),
                 Mv(a5, a6), Mv(h4, h3), Mv(a6, b7), Mv(h3, g2),
                 Mv(a1, a2), Mv(a7, a6), Un, Rd >>,
     squares |-> {a2, a1},
     file |-> NoFile] }
  \cup { [line |-> <<>>, squares |-> {e7, e5}, file |-> edited] : edited \in EditedFiles }

FileInit == Start(FileScenarios)

\* Legal play with the Save and Load buttons.
FileNext ==
  \/ \E k \in 1..Len(valid_moves) : PlayLegal(k)
  \/ \E piece \in PromotionChoices : ClickPromotion(piece)
  \/ ClickUndo
  \/ ClickRedo
  \/ ClickSave
  \/ ClickLoad
  \/ EndOfPass

FileSpec == FileInit /\ [][FileNext]_vars

\* The event loop as it is: any clicks, any number of them in one pass.
HostNext ==
  \/ \E k \in 1..Len(valid_moves) : PlayLegal(k)
  \/ \E sq \in squares : ClickSquare(sq)
  \/ \E piece \in PromotionChoices : ClickPromotion(piece)
  \/ ClickUndo
  \/ ClickRedo
  \/ ClickReset
  \/ EndOfPass

HostSpec == HostInit /\ [][HostNext]_vars

-----------------------------------------------------------------------------
(* Endgames.                                                               *)
(*                                                                         *)
(* check_for_draw and the mate flags of get_valid_moves depend on the      *)
(* board, the turn and the king locations only.  The runs below start in   *)
(* positions with two to four pieces, as a long game leaves them: the      *)
(* moves that led there are left out (move_log is empty, so these runs     *)
(* have no undo), both kings have moved (no castling right is left), and   *)
(* White is to move.                                                       *)

\* A board with no piece on it.
EmptyBoard == [r \in 0..7 |-> [c \in 0..7 |-> EMPTY]]

\* The board with the pieces of a list of <<square, piece>> put on it.
RECURSIVE Placed(_, _)
Placed(board, pieces) ==
  IF pieces = <<>> THEN board
  ELSE Placed([board EXCEPT ![pieces[1][1][1]][pieces[1][1][2]] = pieces[1][2]],
              Tail(pieces))

\* The GameState of an endgame: the fields of GameState.__init__ with the
\* board, the king locations and the rights of the position.
EndgameState(white_king, black_king, others) ==
  [NewGameState EXCEPT
     !.board = Placed(EmptyBoard, << <<white_king, <<"w", "K">> >>,
                                     <<black_king, <<"b", "K">> >> >> \o others),
     !.white_king_location = white_king,
     !.black_king_location = black_king,
     !.castling_rights = Castling(FALSE, FALSE, FALSE, FALSE),
     !.castling_log = <<Castling(FALSE, FALSE, FALSE, FALSE)>>]

\* The squares of the two kings in the endgames.
KingPairs == {<<e1, e8>>, <<e1, a8>>, <<b6, e8>>, <<b6, a8>>}

\* The piece that stands beside the kings in the endgames of three pieces.
ThirdPieces == {"w", "b"} \X {"N", "B", "R", "Q", "p"}

\* The endgames: the two kings alone; the kings and one more piece on c3 or
\* d8; the kings, a white bishop on c1 or f1 and a black bishop on c8 or f8;
\* and Kb6, Nd7, pawn c7 against Ka8.
Endgames ==
  { [white_king |-> kp[1], black_king |-> kp[2], others |-> <<>>] : kp \in KingPairs }
  \cup { [white_king |-> kp[1], black_king |-> kp[2], others |-> << <<sq, piece>> >>] :
           kp \in KingPairs, sq \in {c3, d8}, piece \in ThirdPieces }
  \cup { [white_king |-> kp[1], black_king |-> kp[2],
          others |-> << <<wb, <<"w", "B">> >>, <<bb, <<"b", "B">> >> >>] :
           kp \in KingPairs, wb \in {c1, f1}, bb \in {c8, f8} }
  \cup { [white_king |-> kp[1], black_king |-> kp[2],
          others |-> << <<c1, <<"w", "B">> >>, <<d8, <<"b", "N">> >> >>] :
           kp \in KingPairs }
  \cup { [white_king |-> b6, black_king |-> a8,
          others |-> << <<d7, <<"w", "N">> >>, <<c7, <<"w", "p">> >> >>] }

\* A position a game can reach with White to move: no pawn stands on the
\* first or the last rank, and Black is not in check.
PossibleEndgame(gs) ==
  /\ \A c \in 0..7 : gs.board[0][c][2] # "p" /\ gs.board[7][c][2] # "p"
  /\ ~in_check([gs EXCEPT !.white_to_move = FALSE])

\* The squares the user clicks on in an endgame: those of its pieces, e2 and
\* c8.
EndgameSquares(endgame) ==
  {endgame.white_king, endgame.black_king, e2, c8}
    \cup {endgame.others[i][1] : i \in 1..Len(endgame.others)}

\* main in an endgame position, right after the move that led to it was
\* applied (move_made is true): line 447 is reached next.
EndgameInit ==
  \E endgame \in Endgames :
    \E gs \in {EndgameState(endgame.white_king, endgame.black_king, endgame.others)} :
      /\ PossibleEndgame(gs)
      /\ game_state = gs
      /\ valid_moves = <<>>
      /\ move_made = TRUE
      /\ game_over = FALSE
      /\ square_selected = <<>>
      /\ player_clicks = <<>>
      /\ promotion_buttons = FALSE
      /\ script = <<>>
      /\ played = 0
      /\ squares = EndgameSquares(endgame)
      /\ file = NoFile
      /\ messages = <<>>

\* Legal play in an endgame.
EndgameNext ==
  \/ \E k \in 1..Len(valid_moves) : PlayLegal(k)
  \/ \E piece \in PromotionChoices : ClickPromotion(piece)
  \/ EndOfPass

EndgameSpec == EndgameInit /\ [][EndgameNext]_vars

-----------------------------------------------------------------------------
(* Properties.                                                             *)

\* valid_moves is the list get_valid_moves() returned for the position on
\* the board: the pass has ended and nothing was asked for since.
Settled == ~move_made /\ ~game_state.raised

\* The last element of a log.
Last(log) == log[Len(log)]

\* The step appended one move to move_log (make_move from a click or from
\* redo_move).
MoveApplied == Len(game_state'.move_log) = Len(game_state.move_log) + 1

\* The elements of a list.
Range(list) == {list[i] : i \in 1..Len(list)}

\* undone has the six fields of gs, and the redo_log of gs with m appended.
RoundTripOf(gs, m, undone) ==
  /\ undone.board = gs.board
  /\ undone.white_to_move = gs.white_to_move
  /\ undone.white_king_location = gs.white_king_location
  /\ undone.black_king_location = gs.black_king_location
  /\ undone.castling_rights = gs.castling_rights
  /\ undone.en_passant_possible = gs.en_passant_possible
  /\ undone.redo_log = Append(gs.redo_log, m)

\* make_move(m) followed by undo_move() on gs gives back the six fields of gs
\* and appends m to redo_log.
RoundTrip(gs, m) ==
  RoundTripOf(gs, m, undo_move(make_move(gs, m), TRUE))

\* C1: in every position reached by legal play, for every move m of
\* get_valid_moves(), make_move(m) followed by undo_move() restores board,
\* white_to_move, both king locations, castling_rights and
\* en_passant_possible, and appends m to redo_log.
C1_RoundTrip ==
  Settled => \A k \in 1..Len(valid_moves) : RoundTrip(game_state, valid_moves[k])

\* In made, where the side white_moved (white if true) has just moved, no
\* pseudo-legal move of the opponent ends on the square of the mover's king.
KingSafeIn(made, white_moved) ==
  /\ ~made.raised
  /\ \A reply \in Range(get_all_possible_moves(made)) :
       <<reply.end_row, reply.end_col>> #
         (IF white_moved THEN made.white_king_location ELSE made.black_king_location)

\* After make_move(m) on gs no pseudo-legal move of the opponent ends on the
\* square of the king of the side that moved.
KingSafeAfter(gs, m) ==
  KingSafeIn(make_move(gs, m), gs.white_to_move)

\* C2: every move returned by get_valid_moves() leaves, right after
\* make_move of it, the mover's king on a square no pseudo-legal move of the
\* opponent ends on.
C2_KingSafe ==
  Settled => \A k \in 1..Len(valid_moves) : KingSafeAfter(game_state, valid_moves[k])

\* C2, its case: get_valid_moves() returned the list of a position in which
\* some pseudo-legal move would leave the mover's king attacked.
C2_Filtered ==
  /\ Settled
  /\ \E m \in Range(get_all_possible_moves(game_state)) :
       /\ ~KingSafeAfter(game_state, m)
       /\ \A k \in 1..Len(valid_moves) : ~MoveEq(valid_moves[k], m)

\* The fields get_valid_moves() is to leave as they were (the two logs as
\* lists of moves, whichever list object holds them).
Position(gs) ==
  <<gs.board, gs.white_to_move, gs.white_king_location, gs.black_king_location,
    gs.en_passant_possible, gs.castling_rights, Unshare(gs.move_log),
    Unshare(gs.redo_log)>>

LegalIn(gs, from, to) ==
  \E m \in Range(get_valid_moves(gs).moves) :
    <<m.start_row, m.start_col>> = from /\ <<m.end_row, m.end_col>> = to

\* C4: whenever the click on a square changes the game state, the move asked
\* for by the pending click and this one is a move of get_valid_moves() of
\* the position it is applied to, however many mouse events the pass has
\* handled before valid_moves is recomputed.
C4_ClickLegal ==
  [][\A sq \in squares :
       (ClickSquare(sq) /\ game_state' # game_state)
         => LegalIn(game_state, player_clicks[1], sq)]_vars

\* C5: white_to_move is true iff the number of moves in move_log is even.
C5_TurnParity ==
  game_state.white_to_move <=> (Len(game_state.move_log) % 2 = 0)

\* C5, its case: a promotion was made, its piece chosen, and the move undone.
C5_PromotionUndone ==
  /\ game_state.redo_log # <<>>
  /\ Last(game_state.redo_log).is_pawn_promotion
  /\ Last(game_state.redo_log).promotion_piece # None

\* The four flags of castling_rights.
Flags == {"white_king_side", "black_king_side", "white_queen_side", "black_queen_side"}

\* C6: a step that is no undo (make_move from a click or from redo_move,
\* the promotion choice, get_valid_moves() at the end of the pass) leaves
\* every false flag of castling_rights false.
C6_NeverRegranted ==
  [][Len(game_state'.move_log) >= Len(game_state.move_log)
       => \A flag \in Flags :
            game_state'.castling_rights[flag] => game_state.castling_rights[flag]]_vars

\* C6, its case: after 4...dxe2 the rook went from h1 to g1 and, a black move
\* later, back to h1 (three moves and no undo); White's king-side flag is
\* false with king and rook on their home squares.
C6_RookWentBack ==
  /\ Settled
  /\ Len(game_state.move_log) = 11
  /\ game_state.redo_log = <<>>
  /\ game_state.board[7][7] = <<"w", "R">>
  /\ game_state.board[7][4] = <<"w", "K">>
  /\ ~game_state.castling_rights.white_king_side

\* The flag of the rook that starts on the square <<row, col>>.
CornerFlag(row, col) ==
  CASE <<row, col>> = <<7, 0>> -> "white_queen_side"
    [] <<row, col>> = <<7, 7>> -> "white_king_side"
    [] <<row, col>> = <<0, 0>> -> "black_queen_side"
    [] <<row, col>> = <<0, 7>> -> "black_king_side"

\* The move m captures the rook of its own corner square.
CapturesHomeRook(m) ==
  /\ <<m.end_row, m.end_col>> \in {<<7, 0>>, <<7, 7>>, <<0, 0>>, <<0, 7>>}
  /\ m.piece_captured = <<(IF m.end_row = 7 THEN "w" ELSE "b"), "R">>
  /\ ~m.is_en_passant_move

\* C7: after make_move of a move that captures a rook on its corner square,
\* the castling_rights flag of that colour and wing is false.
C7_CaptureRevokes ==
  [][(MoveApplied /\ CapturesHomeRook(Last(game_state'.move_log)))
       => ~game_state'.castling_rights[CornerFlag(Last(game_state'.move_log).end_row,
                                                  Last(game_state'.move_log).end_col)]]_vars

\* A piece of the side that is not to move in gs could capture on <<r, c>>:
\* one of its pawns stands diagonally before the square, or another of its
\* pieces has a pseudo-legal move that ends on it.
Attacked(gs, r, c) ==
  \/ /\ gs.white_to_move
     /\ r - 1 >= 0
     /\ \E pc \in {c - 1, c + 1} : pc \in 0..7 /\ gs.board[r - 1][pc] = <<"b", "p">>
  \/ /\ ~gs.white_to_move
     /\ r + 1 <= 7
     /\ \E pc \in {c - 1, c + 1} : pc \in 0..7 /\ gs.board[r + 1][pc] = <<"w", "p">>
  \/ \E reply \in Range(get_all_possible_moves([gs EXCEPT !.white_to_move = ~gs.white_to_move])) :
       /\ <<reply.end_row, reply.end_col>> = <<r, c>>
       /\ reply.piece_moved[2] # "p"

\* The columns from a to b, whichever is the smaller.
Between(a, b) == IF a <= b THEN a..b ELSE b..a

\* C8: a castling move is in the list of get_valid_moves() only when no
\* opposing piece could capture on the king's square, on the square it
\* passes over or on the square it ends on; an enemy pawn standing
\* diagonally before an empty one of these squares counts.
C8_CastlingUnattacked ==
  Settled =>
    \A m \in Range(valid_moves) :
      m.is_castling_move =>
        \A c \in Between(m.start_col, m.end_col) : ~Attacked(game_state, m.start_row, c)

\* The flag castling_rights holds for the castling move m.
FlagOf(m) ==
  IF m.piece_moved[1] = "w"
    THEN (IF m.end_col - m.start_col = 2 THEN "white_king_side" ELSE "white_queen_side")
    ELSE (IF m.end_col - m.start_col = 2 THEN "black_king_side" ELSE "black_queen_side")

\* C9: a castling move is in the list of get_valid_moves() only when the
\* castling_rights flag of its side and wing is true and the squares between
\* the king's and the rook's home squares are empty: the f and g files of
\* the side's first rank for the king side, the b, c and d files for the
\* queen side.
C9_CastlingRightsAndEmpty ==
  Settled =>
    \A m \in Range(valid_moves) :
      m.is_castling_move =>
        /\ game_state.castling_rights[FlagOf(m)]
        /\ \A c \in (IF m.end_col - m.start_col = 2 THEN {5, 6} ELSE {1, 2, 3}) :
             game_state.board[IF m.piece_moved[1] = "w" THEN 7 ELSE 0][c] = EMPTY

\* The move m is a pawn's advance of two squares.
TwoSquareAdvance(m) ==
  m.piece_moved[2] = "p" /\ (m.start_row - m.end_row = 2 \/ m.end_row - m.start_row = 2)

\* C10: after make_move of m, en_passant_possible is the square the pawn
\* passed over when m is a two-square pawn advance, and empty after any other
\* move, a pawn promotion included.
C10_EnPassantSquare ==
  [][MoveApplied =>
       game_state'.en_passant_possible =
         (IF TwoSquareAdvance(Last(game_state'.move_log))
            THEN <<(Last(game_state'.move_log).start_row
                    + Last(game_state'.move_log).end_row) \div 2,
                   Last(game_state'.move_log).start_col>>
            ELSE <<>>)]_vars

\* The number of pieces of a colour on a board.
CountColor(board, color) ==
  Cardinality({sq \in (0..7) \X (0..7) : board[sq[1]][sq[2]][1] = color})

\* The en passant move m of gs takes a pawn that is there: an enemy pawn
\* stands beside the capturing pawn on <<start_row, end_col>>, it came there
\* by a two-square advance on the last move of move_log, the destination is
\* empty, and make_move of m empties the pawn's square and leaves the enemy
\* one piece fewer.
EnPassantCapturesPawn(gs, m) ==
  LET enemy == IF m.piece_moved[1] = "w" THEN "b" ELSE "w"
      made == make_move(gs, m)
  IN /\ gs.board[m.start_row][m.end_col] = <<enemy, "p">>
     /\ gs.board[m.end_row][m.end_col] = EMPTY
     /\ gs.move_log # <<>>
     /\ TwoSquareAdvance(Last(gs.move_log))
     /\ <<Last(gs.move_log).end_row, Last(gs.move_log).end_col>> = <<m.start_row, m.end_col>>
     /\ made.board[m.start_row][m.end_col] = EMPTY
     /\ CountColor(made.board, enemy) = CountColor(gs.board, enemy) - 1

\* C11: every en passant move in the list of get_valid_moves() captures an
\* enemy pawn that stands beside the capturing pawn and advanced two squares
\* on the move before; its destination is empty and applying it removes
\* exactly that pawn.
C11_EnPassantReal ==
  Settled =>
    \A m \in Range(valid_moves) :
      m.is_en_passant_move => EnPassantCapturesPawn(game_state, m)

\* C12: while pawn_promotion is true, a step that neither chooses the
\* promotion piece nor undoes the promotion move (a click, a redo, the
\* get_valid_moves() call at the end of a pass) leaves pawn_promotion true
\* and applies no move.
C12_PromotionSuspends ==
  [][(/\ game_state.pawn_promotion
      /\ ~(\E piece \in PromotionChoices : ClickPromotion(piece))
      /\ Len(game_state'.move_log) >= Len(game_state.move_log))
       => (/\ game_state'.pawn_promotion
           /\ Len(game_state'.move_log) = Len(game_state.move_log))]_vars

\* The colour of the side to move in gs.
ToMove(gs) == IF gs.white_to_move THEN "w" ELSE "b"

\* The step applied a promotion move for which no piece is chosen.
PromotionApplied ==
  /\ MoveApplied
  /\ Last(game_state'.move_log).is_pawn_promotion
  /\ ~Truthy(Last(game_state'.move_log).promotion_piece)

\* after is gs suspended on the promotion move m: m is appended to move_log,
\* the turn has passed, the mover's pawn stands on the destination,
\* pawn_promotion is true, promotion_square is the destination and
\* promotion_piece_color the mover's colour.
SuspendedOn(gs, m, after) ==
  /\ SubSeq(after.move_log, 1, Len(gs.move_log)) = gs.move_log
  /\ after.white_to_move = ~gs.white_to_move
  /\ m.piece_moved = <<ToMove(gs), "p">>
  /\ after.board[m.end_row][m.end_col] = <<ToMove(gs), "p">>
  /\ after.board[m.start_row][m.start_col] = EMPTY
  /\ after.pawn_promotion
  /\ after.promotion_square = <<m.end_row, m.end_col>>
  /\ after.promotion_piece_color = ToMove(gs)

\* C13: after make_move of a promotion move with no promotion piece chosen
\* the destination holds the pawn, pawn_promotion is true, promotion_square
\* is the destination and promotion_piece_color the mover's colour, the move
\* is the last of move_log and white_to_move has flipped.
C13_PromotionSuspended ==
  [][PromotionApplied
       => SuspendedOn(game_state, Last(game_state'.move_log), game_state')]_vars

\* C13, its case: a promotion move was applied in this pass and waits for
\* its piece.
C13_Pending ==
  /\ move_made
  /\ game_state.pawn_promotion
  /\ game_state.move_log # <<>>
  /\ Last(game_state.move_log).is_pawn_promotion
  /\ Last(game_state.move_log).promotion_piece = None

\* The squares of the board.
Squares == (0..7) \X (0..7)

\* after is gs with the pending promotion resolved to piece: the mover's
\* pawn on promotion_square has become the mover's piece, the last move of
\* move_log records it, pawn_promotion is false, and the other squares, the
\* turn, the kings, the rights, the en passant square and the logs (but for
\* the piece recorded) are those of gs.
ResolvedTo(gs, piece, after) ==
  LET sq == gs.promotion_square
      last_move == Last(gs.move_log)
      mover == last_move.piece_moved[1]
  IN /\ last_move.is_pawn_promotion
     /\ sq = <<last_move.end_row, last_move.end_col>>
     /\ gs.board[sq[1]][sq[2]] = <<mover, "p">>
     /\ after.board[sq[1]][sq[2]] = <<mover, piece>>
     /\ Last(after.move_log).promotion_piece = piece
     /\ ~after.pawn_promotion
     /\ \A other \in Squares \ {sq} :
          after.board[other[1]][other[2]] = gs.board[other[1]][other[2]]
     /\ after.white_to_move = gs.white_to_move
     /\ after.white_king_location = gs.white_king_location
     /\ after.black_king_location = gs.black_king_location
     /\ after.castling_rights = gs.castling_rights
     /\ after.castling_log = gs.castling_log
     /\ after.en_passant_possible = gs.en_passant_possible
     /\ Len(after.move_log) = Len(gs.move_log)
     /\ SubSeq(after.move_log, 1, Len(gs.move_log) - 1)
          = SubSeq(gs.move_log, 1, Len(gs.move_log) - 1)
     /\ [Last(after.move_log) EXCEPT !.promotion_piece = None]
          = [last_move EXCEPT !.promotion_piece = None]
     /\ Len(after.redo_log) = Len(gs.redo_log)

\* C14: the click on the promotion button of kind X replaces the pawn on
\* promotion_square by the mover's piece of kind X, records X on the last
\* move of move_log, sets pawn_promotion to false and changes nothing else
\* of the position.
C14_PromotionResolved ==
  [][\A piece \in PromotionChoices :
       ClickPromotion(piece) => ResolvedTo(game_state, piece, game_state')]_vars

\* C14, its case: the piece of a promotion was chosen in this pass, and it
\* is a knight.
C14_Chosen ==
  /\ move_made
  /\ ~game_state.pawn_promotion
  /\ game_state.move_log # <<>>
  /\ Last(game_state.move_log).is_pawn_promotion
  /\ Last(game_state.move_log).promotion_piece = "N"
  /\ game_state.board[Last(game_state.move_log).end_row][Last(game_state.move_log).end_col]
       = <<Last(game_state.move_log).piece_moved[1], "N">>

\* C15: undo_move() on an empty move_log and redo_move() on an empty
\* redo_log return without raising and leave the object as it was: board,
\* white_to_move, king locations, castling_rights, castling_log,
\* en_passant_possible, move_log and redo_log (and every other field).
C15_EmptyLogNoOp ==
  /\ game_state.move_log = <<>> => undo_move(game_state, TRUE) = game_state
  /\ game_state.redo_log = <<>> => redo_move(game_state) = game_state

\* C15, its case: every move played was taken back, so move_log is empty
\* while redo_log is not.
C15_AllUndone ==
  Settled /\ game_state.move_log = <<>> /\ game_state.redo_log # <<>>

\* The most undo_move() calls in a row the replay below is tried with.
MaxUndone == 3

\* n calls of undo_move() on gs.
RECURSIVE UndoTimes(_, _)
UndoTimes(gs, n) ==
  IF n = 0 THEN gs ELSE UndoTimes(undo_move(gs, TRUE), n - 1)

\* n calls of redo_move() on gs.
RECURSIVE RedoTimes(_, _)
RedoTimes(gs, n) ==
  IF n = 0 THEN gs ELSE RedoTimes(redo_move(gs), n - 1)

\* replayed has the board, the turn, the king locations, the rights, the en
\* passant square and the move_log of gs, and no call has raised.
SameGame(gs, replayed) ==
  /\ ~replayed.raised
  /\ replayed.board = gs.board
  /\ replayed.white_to_move = gs.white_to_move
  /\ replayed.white_king_location = gs.white_king_location
  /\ replayed.black_king_location = gs.black_king_location
  /\ replayed.castling_rights = gs.castling_rights
  /\ replayed.en_passant_possible = gs.en_passant_possible
  /\ Unshare(replayed.move_log) = Unshare(gs.move_log)

\* C16: in every state reached (the pass ended, no promotion pending), for
\* every n up to len(move_log), n undo_move() calls followed by n
\* redo_move() calls give back the board, white_to_move, the king locations,
\* castling_rights, en_passant_possible and move_log.
C16_UndoRedoReplay ==
  (Settled /\ ~game_state.pawn_promotion) =>
    \A n \in 1..MaxUndone :
      n <= Len(game_state.move_log)
        => SameGame(game_state, RedoTimes(UndoTimes(game_state, n), n))

\* C17: after a move applied by the click handler redo_log is empty; a move
\* re-applied by redo_move() is the last of redo_log, and only it leaves
\* redo_log.
C17_RedoBranch ==
  [][/\ (\E k \in 1..Len(valid_moves) : PlayLegal(k))
          => game_state'.redo_log = <<>>
     /\ (ClickRedo /\ game_state.redo_log # <<>>)
          => /\ game_state'.redo_log
                  = SubSeq(game_state.redo_log, 1, Len(game_state.redo_log) - 1)
             /\ MoveApplied
             /\ Last(game_state'.move_log) = Last(game_state.redo_log)]_vars

\* C17, its case: after the three moves of run 3 a move was played and taken
\* back, and another move was applied by the click handler in this pass.
C17_NewBranch ==
  /\ move_made
  /\ script = <<>>
  /\ played = 3
  /\ Len(game_state.move_log) = 4
  /\ Last(game_state.move_log).in_valid_moves
  /\ game_state.redo_log = <<>>

\* C18: after every get_valid_moves() call, checkmate is true iff the list
\* returned is empty and the side to move is in check, and stalemate is true
\* iff the list is empty and the side to move is not in check; the call made
\* while a promotion is pending and the call made after its piece is chosen
\* are two of these calls.
C18_MateFlags ==
  Settled =>
    /\ game_state.checkmate <=> (valid_moves = <<>> /\ in_check(game_state))
    /\ game_state.stalemate <=> (valid_moves = <<>> /\ ~in_check(game_state))

\* The squares of a board that hold a piece.
PieceSquares(board) == {sq \in Squares : board[sq[1]][sq[2]] # EMPTY}

\* The pieces of a board, as a bag: the number of squares each piece is on.
PiecesOf(board) ==
  [piece \in {board[sq[1]][sq[2]] : sq \in PieceSquares(board)} |->
     Cardinality({sq \in PieceSquares(board) : board[sq[1]][sq[2]] = piece})]

\* C19: with exactly two pieces on the board check_for_draw() returns true;
\* with exactly three it returns true iff the piece that is no king is a
\* knight or a bishop, and false otherwise; and after get_valid_moves() draw
\* is that result.
C19_InsufficientMaterial ==
  LET board == game_state.board
      n == Cardinality(PieceSquares(board))
  IN /\ n = 2 => check_for_draw(game_state) = "True"
     /\ n = 3 =>
          check_for_draw(game_state) =
            (IF \E sq \in PieceSquares(board) : board[sq[1]][sq[2]][2] \in {"N", "B"}
               THEN "True" ELSE "False")
     /\ (Settled /\ n \in {2, 3})
          => game_state.draw = (check_for_draw(game_state) = "True")

\* C19, its case: a capture has left the two kings alone, and
\* get_valid_moves() has set draw.
C19_BareKings ==
  /\ Settled
  /\ Cardinality(PieceSquares(game_state.board)) = 2
  /\ game_state.move_log # <<>>
  /\ Last(game_state.move_log).piece_captured # EMPTY
  /\ game_state.draw

\* The square of a piece that stands on one square of the board.
SquareOf(board, piece) ==
  CHOOSE sq \in PieceSquares(board) : board[sq[1]][sq[2]] = piece

\* C20: when the pieces on the board are the two kings, one white bishop and
\* one black bishop, check_for_draw() returns true if row + column of the
\* two bishops' squares have the same parity, and false if not.
C20_BishopsDraw ==
  LET board == game_state.board
      wb == SquareOf(board, <<"w", "B">>)
      bb == SquareOf(board, <<"b", "B">>)
  IN PiecesOf(board) = (<<"w", "K">> :> 1 @@ <<"b", "K">> :> 1
                        @@ <<"w", "B">> :> 1 @@ <<"b", "B">> :> 1)
       => check_for_draw(game_state) =
            (IF (wb[1] + wb[2]) % 2 = (bb[1] + bb[2]) % 2 THEN "True" ELSE "False")

\* The material combinations the draw rule lists: the two kings alone, the
\* two kings and one knight or bishop, the two kings and one bishop a side.
ListedMaterial(board) ==
  LET n == Cardinality(PieceSquares(board))
      kinds == {board[sq[1]][sq[2]] : sq \in PieceSquares(board)}
  IN \/ n = 2
     \/ n = 3 /\ \E piece \in kinds : piece[2] \in {"N", "B"}
     \/ n = 4 /\ <<"w", "B">> \in kinds /\ <<"b", "B">> \in kinds

\* C21: on every position of legal play get_valid_moves() and
\* check_for_draw() return without raising, whatever the material (four
\* pieces of which one is a bishop included), and with a material
\* combination the draw rule does not list check_for_draw() returns false.
C21_NothingFatal ==
  /\ ~game_state.raised
  /\ check_for_draw(game_state) \in {"True", "False"}
  /\ ~ListedMaterial(game_state.board) => check_for_draw(game_state) = "False"

\* The state load_game_state() returns for the file save_game_state() writes
\* has the board, the turn and the castling rights of gs.
SavedAndLoaded(gs) ==
  LET saved == save_game_state(gs)
      loaded == load_game_state(saved.file)
  IN /\ ~saved.raised
     /\ ~loaded.gs.raised
     /\ loaded.gs.board = gs.board
     /\ loaded.gs.white_to_move = gs.white_to_move
     /\ loaded.gs.castling_rights = gs.castling_rights

\* C22: when a game played through the host (moves, promotions, undos and
\* redos) is saved while no promotion is pending, load_game_state() of the
\* saved file returns a state with the same board, white_to_move and
\* castling_rights as the game in memory.
C22_SaveLoadRoundTrip ==
  [][(ClickSave /\ ~game_state'.raised) => SavedAndLoaded(game_state)]_vars

\* The first word of a line is not four coordinate characters: it has
\* another length, or a file letter outside a-h, or a rank outside 1-8.
Malformed(notation) ==
  \/ Len(notation) # 4
  \/ notation[1] \notin {"a", "b", "c", "d", "e", "f", "g", "h"}
  \/ notation[2] \notin {"1", "2", "3", "4", "5", "6", "7", "8"}
  \/ notation[3] \notin {"a", "b", "c", "d", "e", "f", "g", "h"}
  \/ notation[4] \notin {"1", "2", "3", "4", "5", "6", "7", "8"}

\* The replay of a malformed line, from the state loaded: it returns, shows
\* one more error box, about this line, and leaves the GameState as it was.
MalformedSkipped(loaded, line) ==
  LET after == LoadLine(loaded, line)
  IN /\ ~after.gs.raised
     /\ after.gs = loaded.gs
     /\ Len(after.messages) = Len(loaded.messages) + 1
     /\ Last(after.messages).line = line

\* Every malformed line from index k on is skipped, the replay having come
\* to the state loaded without raising.
RECURSIVE MalformedSkippedFrom(_, _, _)
MalformedSkippedFrom(loaded, lines, k) ==
  \/ k > Len(lines)
  \/ loaded.gs.raised
  \/ /\ Malformed(lines[k][1]) => MalformedSkipped(loaded, lines[k])
     /\ MalformedSkippedFrom(LoadLine(loaded, lines[k]), lines, k + 1)

\* C23: for every line of the file whose first token is not four valid
\* coordinate characters (wrong length, file outside a-h, rank outside 1-8)
\* load_game_state() reports a warning, skips the line without changing the
\* position, and goes on with the remaining lines without raising.
C23_MalformedLineSkipped ==
  file \in EditedFiles =>
    /\ MalformedSkippedFrom([gs |-> NewGameState, messages |-> <<>>],
                            KeptLines(file.lines), 1)
    /\ ~load_game_state(file).gs.raised

\* No move of the list has the start and end squares of the notation.
NoMoveOf(possible_moves, notation) ==
  LET start_row == CHOOSE r \in 0..7 : rows_to_ranks[r] = notation[2]
      start_col == CHOOSE c \in 0..7 : cols_to_files[c] = notation[1]
      end_row == CHOOSE r \in 0..7 : rows_to_ranks[r] = notation[4]
      end_col == CHOOSE c \in 0..7 : cols_to_files[c] = notation[3]
  IN \A i \in 1..Len(possible_moves) :
       ~(/\ possible_moves[i].start_row = start_row
         /\ possible_moves[i].start_col = start_col
         /\ possible_moves[i].end_row = end_row
         /\ possible_moves[i].end_col = end_col)

\* The replay of a line that matches no legal move, from the state loaded:
\* it returns, shows one more error box, about this line, and leaves the
\* position and the move log as they were.
UnmatchedSkipped(loaded, line) ==
  LET after == LoadLine(loaded, line)
  IN /\ ~after.gs.raised
     /\ Len(after.messages) = Len(loaded.messages) + 1
     /\ Last(after.messages) = [title |-> "Invalid move", line |-> line]
     /\ after.gs.board = loaded.gs.board
     /\ after.gs.white_to_move = loaded.gs.white_to_move
     /\ after.gs.white_king_location = loaded.gs.white_king_location
     /\ after.gs.black_king_location = loaded.gs.black_king_location
     /\ after.gs.castling_rights = loaded.gs.castling_rights
     /\ after.gs.en_passant_possible = loaded.gs.en_passant_possible
     /\ after.gs.move_log = loaded.gs.move_log

\* Every well-formed line from index k on that matches no legal move of the
\* position the replay has come to is skipped.
RECURSIVE UnmatchedSkippedFrom(_, _, _)
UnmatchedSkippedFrom(loaded, lines, k) ==
  \/ k > Len(lines)
  \/ loaded.gs.raised
  \/ /\ (~Malformed(lines[k][1])
          /\ NoMoveOf(get_valid_moves(loaded.gs).moves, lines[k][1]))
         => UnmatchedSkipped(loaded, lines[k])
     /\ UnmatchedSkippedFrom(LoadLine(loaded, lines[k]), lines, k + 1)

\* C24: a well-formed line whose (start, end) matches no move of
\* get_valid_moves() of the current replay position is reported by
\* load_game_state(), leaves board, white_to_move, the king locations,
\* castling_rights, en_passant_possible and move_log unchanged, and the
\* replay continues with the remaining lines.
C24_UnmatchedMoveSkipped ==
  file \in EditedFiles =>
    UnmatchedSkippedFrom([gs |-> NewGameState, messages |-> <<>>],
                         KeptLines(file.lines), 1)

\* C24, its case: the Load button has replayed a file with a line that
\* matches no move before a line that does: the line was reported and the
\* later move is in the move log.
C24_ReplayedPast ==
  /\ ~game_state.raised
  /\ file \in EditedFiles
  /\ \E i \in 1..Len(messages) : messages[i].title = "Invalid move"
  /\ game_state.move_log # <<>>
  /\ get_chess_notation(Last(game_state.move_log)) = Last(file.lines)[1]

\* The moves of a list made by a piece of the given kind.
MovesOfKind(moves, kind) == {i \in 1..Len(moves) : moves[i].piece_moved[2] = kind}

\* C25: on a fresh GameState get_valid_moves() returns exactly 20 moves, 16
\* pawn moves and 4 knight moves, and sets checkmate, stalemate and draw to
\* false.
C25_StartingPosition ==
  (Settled /\ game_state.move_log = <<>> /\ game_state.redo_log = <<>>
   /\ game_state.board = InitialBoard)
    => /\ Len(valid_moves) = 20
       /\ Cardinality(MovesOfKind(valid_moves, "p")) = 16
       /\ Cardinality(MovesOfKind(valid_moves, "N")) = 4
       /\ ~game_state.checkmate /\ ~game_state.stalemate /\ ~game_state.draw

\* C25, its case: get_valid_moves() has been called on a fresh GameState and
\* no move was made since.
C25_Fresh ==
  /\ Settled
  /\ game_state.move_log = <<>> /\ game_state.redo_log = <<>>
  /\ game_state.board = InitialBoard
  /\ valid_moves # <<>>

\* The piece stands on the square a king location names (a negative column
\* counts from the end of the row, as a Python index does).
KingOn(board, location, piece) ==
  /\ location[1] \in 0..7
  /\ PyIndexOk(location[2])
  /\ board[location[1]][PyIndex(location[2])] = piece

\* C26: in every state reached from a fresh GameState by make_move of legal
\* moves (castling included), undo_move and redo_move,
\* board[white_king_location] is "wK" and board[black_king_location] is
\* "bK".
C26_KingSquaresInSync ==
  ~game_state.raised =>
    /\ KingOn(game_state.board, game_state.white_king_location, <<"w", "K">>)
    /\ KingOn(game_state.board, game_state.black_king_location, <<"b", "K">>)

\* C26, its case: a castling move was made and undone.
C26_CastledAndUndone ==
  /\ ~game_state.raised
  /\ game_state.redo_log # <<>>
  /\ Last(game_state.redo_log).is_castling_move

\* The squares of a board a piece stands on.
SquaresOf(board, piece) == {sq \in Squares : board[sq[1]][sq[2]] = piece}

\* C27: in every state reached by legal moves applied through the host,
\* promotion choices, undo and redo, the board holds exactly one "wK" and
\* exactly one "bK".
C27_OneKingEach ==
  ~game_state.raised =>
    /\ Cardinality(SquaresOf(game_state.board, <<"w", "K">>)) = 1
    /\ Cardinality(SquaresOf(game_state.board, <<"b", "K">>)) = 1

\* C27, its case: a king has moved and a piece was captured on the move
\* after it.
C27_KingMovedThenCapture ==
  /\ ~game_state.raised
  /\ Len(game_state.move_log) >= 2
  /\ game_state.move_log[Len(game_state.move_log) - 1].piece_moved[2] = "K"
  /\ Last(game_state.move_log).piece_captured # EMPTY

\* C28: in every state reached by make_move (promotion moves included),
\* undo_move, redo_move and get_valid_moves(), castling_log has one element
\* more than move_log and its last element equals castling_rights.
C28_CastlingLogMirrorsMoveLog ==
  ~game_state.raised =>
    /\ Len(game_state.castling_log) = Len(game_state.move_log) + 1
    /\ Last(game_state.castling_log) = game_state.castling_rights

\* The castling move m made on before has given after: the king stands on
\* the g-file (c-file) and the rook that stood on the h-file (a-file) corner
\* of the mover's first rank on the f-file (d-file), their origin squares
\* are empty, the king location field is the king's new square, and
\* undo_move() of after puts king and rook back on their origin squares.
CastledAtomically(before, m, after) ==
  LET color == m.piece_moved[1]
      home_row == IF color = "w" THEN 7 ELSE 0
      king_side == m.end_col - m.start_col = 2
      king_col == IF king_side THEN 6 ELSE 2
      rook_col == IF king_side THEN 5 ELSE 3
      corner_col == IF king_side THEN 7 ELSE 0
      undone == undo_move(after, TRUE)
  IN /\ ~after.raised
     /\ before.board[home_row][corner_col] = <<color, "R">>
     /\ after.board[m.end_row][king_col] = <<color, "K">>
     /\ after.board[home_row][rook_col] = <<color, "R">>
     /\ after.board[m.start_row][m.start_col] = EMPTY
     /\ after.board[home_row][corner_col] = EMPTY
     /\ (IF color = "w" THEN after.white_king_location ELSE after.black_king_location)
          = <<m.end_row, king_col>>
     /\ ~undone.raised
     /\ undone.board[m.start_row][m.start_col] = <<color, "K">>
     /\ undone.board[home_row][corner_col] = <<color, "R">>
     /\ undone.board[m.end_row][king_col] = EMPTY
     /\ undone.board[home_row][rook_col] = EMPTY

\* C29: make_move of a castling move puts the king on the g-file and the
\* rook of the h-file corner on the f-file (queen side: king on c, rook from
\* a to d), leaves their origin squares empty and sets the king location to
\* the king's new square, and undo_move() of that move puts king and rook
\* back on their origin squares.
C29_CastlingAtomic ==
  [][(MoveApplied /\ Last(game_state'.move_log).is_castling_move)
       => CastledAtomically(game_state, Last(game_state'.move_log), game_state')]_vars

\* The corner square of the wing of the castling move m.
CornerOf(m) ==
  <<IF m.piece_moved[1] = "w" THEN 7 ELSE 0, IF m.end_col - m.start_col = 2 THEN 7 ELSE 0>>

\* C30: whenever get_valid_moves() returns a castling move, the mover's king
\* stands on its home square (e1 or e8) and a rook of the mover's colour on
\* the corner square of that wing.
C30_CastlingFromHome ==
  Settled =>
    \A m \in Range(valid_moves) :
      m.is_castling_move =>
        /\ <<m.start_row, m.start_col>> = <<CornerOf(m)[1], 4>>
        /\ game_state.board[CornerOf(m)[1]][4] = <<m.piece_moved[1], "K">>
        /\ game_state.board[CornerOf(m)[1]][CornerOf(m)[2]] = <<m.piece_moved[1], "R">>

\* C31: in every position in which pawn_promotion is true (the side to move
\* may itself have a pawn one step from promotion), pawn_promotion,
\* promotion_square and promotion_piece_color have the same values after
\* get_valid_moves() as before the call.
C31_PendingPromotionKept ==
  (game_state.pawn_promotion /\ ~game_state.raised) =>
    \E called \in {get_valid_moves(game_state).gs} :
      /\ called.pawn_promotion = game_state.pawn_promotion
      /\ called.promotion_square = game_state.promotion_square
      /\ called.promotion_piece_color = game_state.promotion_piece_color

\* Two clicks on the start and the end square of valid_moves[k] are handled
\* by the board branch of the mouse handler (lines 334 and 347) and apply
\* the move.
ClicksApply(k) ==
  /\ ~game_state.pawn_promotion
  /\ ~game_over
  /\ Len(ApplyMatches(game_state, valid_moves,
                      move_ID(valid_moves[k].start_row, valid_moves[k].start_col,
                              valid_moves[k].end_row, valid_moves[k].end_col), 1).move_log)
       > Len(game_state.move_log)

\* C32: whenever the position on the board has at least one legal move, is
\* not a draw and has no promotion pending, and no click is pending, every
\* legal move selected by two board clicks is applied; in particular after
\* the Reset button that follows a finished game.
C32_NeverFrozen ==
  (/\ Settled
   /\ player_clicks = <<>>
   /\ valid_moves # <<>>
   /\ ~game_state.draw
   /\ ~game_state.pawn_promotion)
    => \A k \in 1..Len(valid_moves) : ClicksApply(k)

\* The replay of a line that matches a legal move, from the state loaded:
\* unless the move is a pawn's move to the first or the last rank, the piece
\* that stood on the start square stands on the end square afterwards.
KindKept(loaded, line) ==
  LET squares_of_line == get_row_col_from_notation(line[1])
      start_sq == squares_of_line[1]
      end_sq == squares_of_line[2]
      piece == loaded.gs.board[start_sq[1]][start_sq[2]]
      after == LoadLine(loaded, line)
  IN (piece[2] = "p" /\ end_sq[1] \in {0, 7})
     \/ (~after.gs.raised /\ after.gs.board[end_sq[1]][end_sq[2]] = piece)

\* Every line from index k on that matches a legal move of the position the
\* replay has come to keeps the kind of the piece it moves.
RECURSIVE KindKeptFrom(_, _, _)
KindKeptFrom(loaded, lines, k) ==
  \/ k > Len(lines)
  \/ loaded.gs.raised
  \/ /\ (~Malformed(lines[k][1])
          /\ ~NoMoveOf(get_valid_moves(loaded.gs).moves, lines[k][1]))
         => KindKept(loaded, lines[k])
     /\ KindKeptFrom(LoadLine(loaded, lines[k]), lines, k + 1)

\* C33: for every file content, each make_move of load_game_state() leaves
\* the kind of the moved piece unchanged unless the matched move is a pawn
\* promotion, and the state returned has exactly one king per colour, on
\* the squares white_king_location and black_king_location name, also when
\* a line has a promotion=<X> flag on a move that is no pawn promotion.
C33_ReplayKeepsKinds ==
  file \in EditedFiles =>
    /\ KindKeptFrom([gs |-> NewGameState, messages |-> <<>>], KeptLines(file.lines), 1)
    /\ \E loaded \in {load_game_state(file).gs} :
         ~loaded.raised =>
           /\ KingOn(loaded.board, loaded.white_king_location, <<"w", "K">>)
           /\ KingOn(loaded.board, loaded.black_king_location, <<"b", "K">>)
           /\ Cardinality(SquaresOf(loaded.board, <<"w", "K">>)) = 1
           /\ Cardinality(SquaresOf(loaded.board, <<"b", "K">>)) = 1

\* The directions of the lines of a rook, a bishop or a queen.
LinesOf(kind) ==
  (IF kind \in {"R", "Q"} THEN {<<-1, 0>>, <<0, -1>>, <<1, 0>>, <<0, 1>>} ELSE {})
  \cup (IF kind \in {"B", "Q"} THEN {<<-1, -1>>, <<-1, 1>>, <<1, -1>>, <<1, 1>>} ELSE {})

\* The squares a piece of the given kind on (r, c) reaches along its lines:
\* on the board, every square strictly between empty, and not holding a
\* piece of ally_color.
Reachable(board, r, c, kind, ally_color) ==
  { <<r + d[1] * i, c + d[2] * i>> : <<d, i>> \in
      { di \in LinesOf(kind) \X (1..7) :
          /\ r + di[1][1] * di[2] \in 0..7
          /\ c + di[1][2] * di[2] \in 0..7
          /\ \A j \in 1..(di[2] - 1) :
               board[r + di[1][1] * j][c + di[1][2] * j] = EMPTY
          /\ board[r + di[1][1] * di[2]][c + di[1][2] * di[2]][1] # ally_color } }

\* The end squares of the moves of the list that start on (r, c).
EndsFrom(moves, r, c) ==
  { <<moves[k].end_row, moves[k].end_col>> :
      k \in { n \in 1..Len(moves) : moves[n].start_row = r /\ moves[n].start_col = c } }

\* The list respects occupancy on the board for the side ally_color.
RespectsOccupancy(moves, board, ally_color) ==
  /\ \A k \in 1..Len(moves) :
       board[moves[k].end_row][moves[k].end_col][1] # ally_color
  /\ \A r \in 0..7, c \in 0..7 :
       (board[r][c][1] = ally_color /\ board[r][c][2] \in {"R", "B", "Q"})
         => EndsFrom(moves, r, c) = Reachable(board, r, c, board[r][c][2], ally_color)

\* C34: no move returned by get_all_possible_moves() ends on a square that
\* holds a piece of the mover's colour, and the moves of every rook, bishop
\* and queen end exactly on the squares along its lines that have only
\* empty squares strictly between: the first occupied square is among them
\* if and only if it holds an enemy piece.
C34_GenerationRespectsOccupancy ==
  ~game_state.raised =>
    RespectsOccupancy(get_all_possible_moves(game_state), game_state.board,
                      IF game_state.white_to_move THEN "w" ELSE "b")

\* A rook, bishop or queen of the side to move can capture at a distance,
\* and a friendly piece stands on one of its lines behind an empty square.
C34_SliderCapturesAndIsBlocked ==
  /\ ~game_state.raised
  /\ \E moves \in {get_all_possible_moves(game_state)} :
       \E k \in 1..Len(moves) :
         /\ moves[k].piece_moved[2] \in {"R", "B", "Q"}
         /\ moves[k].piece_captured # EMPTY
         /\ moves[k].start_row - moves[k].end_row \notin {-1, 0, 1}
         /\ game_state.board[moves[k].start_row][moves[k].start_col]
              = moves[k].piece_moved
  /\ \E r \in 0..7, c \in 0..7, d \in LinesOf("Q") :
       /\ r + 2 * d[1] \in 0..7 /\ c + 2 * d[2] \in 0..7
       /\ game_state.board[r][c][2] \in {"R", "B", "Q"}
       /\ d \in LinesOf(game_state.board[r][c][2])
       /\ game_state.board[r][c][1] = (IF game_state.white_to_move THEN "w" ELSE "b")
       /\ game_state.board[r + d[1]][c + d[2]] = EMPTY
       /\ game_state.board[r + 2 * d[1]][c + 2 * d[2]][1] = game_state.board[r][c][1]

\* The coordinate notation of a square: the file letter a-h of column 0-7,
\* then the rank digit, 8 for row 0 down to 1 for row 7.
SquareName(r, c) ==
  << <<"a", "b", "c", "d", "e", "f", "g", "h">>[c + 1],
     <<"8", "7", "6", "5", "4", "3", "2", "1">>[r + 1] >>

\* The file has the saved format of the log: a header line that begins
\* with "#", then one line per move in log order, whose first word is the
\* four characters of the move's start and end squares, from which
\* get_row_col_from_notation gives the two squares back.
SavedFormat(log, saved) ==
  /\ saved.exists
  /\ Len(saved.lines) = Len(log) + 1
  /\ saved.lines[1][1][1] = "#"
  /\ \A k \in 1..Len(log) :
       LET notation == saved.lines[k + 1][1]
       IN /\ Len(notation) = 4
          /\ notation = SquareName(log[k].start_row, log[k].start_col)
                          \o SquareName(log[k].end_row, log[k].end_col)
          /\ CoordinateKeys(notation)
          /\ get_row_col_from_notation(notation)
               = << <<log[k].start_row, log[k].start_col>>,
                    <<log[k].end_row, log[k].end_col>> >>

\* C35: save_game_state() writes one header line beginning with "#" and
\* then exactly one line per move of move_log, in log order, each starting
\* with the 4-character coordinate notation of the move (file a-h from
\* column 0-7, rank 8 for row 0 down to rank 1 for row 7), and
\* get_row_col_from_notation applied to it returns the move's start and
\* end squares.
C35_SavedLogFormat ==
  [][(ClickSave /\ ~game_state'.raised) => SavedFormat(game_state.move_log, file')]_vars

\* A game of three or more moves has been saved and not been played on.
C35_SavedThreeMoves ==
  /\ ~game_state.raised
  /\ file.exists
  /\ file \notin EditedFiles
  /\ Len(game_state.move_log) >= 3
  /\ file = save_game_state(game_state).file

====
